---- MODULE Spec2Model ----
(***************************************************************************)
(* Model of the socni VLAN CNI plugin (recluse-so/k3s-intergration).       *)
(*                                                                         *)
(* One plugin process runs at a time (the orchestrator serialises the      *)
(* invocations of one sandbox).  An invocation is chosen by the            *)
(* environment (verb, configuration bytes, arguments), runs run_cni and    *)
(* the handler of its verb step by step, and exits.  The state that        *)
(* outlives a process is the kernel's (links, routes, namespaces) and the  *)
(* access-control backend's (labels).                                      *)
(*                                                                         *)
(* Specifications:                                                         *)
(*   Spec      the plugin binary vlan-cni: run_cni, cmd_add, cmd_del,      *)
(*             cmd_check, VlanPlugin, the live AranyaClient                *)
(*   SpecParse NetConf::parse over a dense range of VLAN ids               *)
(*   SpecCtl   the stub AranyaClient of socni-ctl                          *)
(***************************************************************************)
EXTENDS Integers, Sequences, FiniteSets, TLC

\* ------------------------------------------------------------------ bounds
\* Number of plugin processes the orchestrator starts in one behaviour.
MaxInvocations == 2
\* Longest list of statically configured routes in an address plan.
MaxRoutes == 1
\* SpecParse: the VLAN ids tried are -RawVlanLow .. RawVlanHigh and the
\* neighbourhood of the u16 limit.
RawVlanLow == 2
RawVlanHigh == 4100
\* SpecCtl: calls made on the stub client in one behaviour.
MaxCtlCalls == 4
\* SpecResult: calls made on one CniResult before it is printed.
MaxCalls == 3
\* SpecPlan: address plans computed in one behaviour.
MaxPlans == 2

\* ------------------------------------------------------ program constants
MinVlan == 1
MaxVlan == 4094
U16Max == 65535
ErrorCode == 100
ExitFailure == 1

VARIABLES
    \* the orchestrator
    inv,            \* processes started so far
    prev_del,       \* the previous process was a DEL that exited 0
    snap,           \* links, routes and labels when the process started
    registered,     \* VLAN ids whose label an earlier or this ADD created
    \* the process's inputs
    cmd,            \* CNI_COMMAND
    stdin,          \* configuration bytes (decoded: the JSON they spell)
    args,           \* CNI_NETNS, CNI_IFNAME, ... of the environment
    \* the process
    pc,             \* position in the code
    config,         \* VlanPlugin.config: what NetConf::parse returned
    aranya,         \* VlanPlugin.aranya: Option<AranyaClient>
    vlan_configs,   \* AranyaClient.vlan_configs (process-local map, its keys)
    query,          \* check_vlan_access: the backend's answers (its locals)
    access,         \* what check_vlan_access returned
    os_thread,      \* the OS thread that polls the handler's future
    thread_ns,      \* network namespace of the calling thread
    fds,            \* in_netns: the descriptors fd and cur_netns
    closure_result, \* in_netns: `result`, what f() returned
    netns_ret,      \* what in_netns returned
    result,         \* the CniResult accumulator of add_network
    ret,            \* what the handler / run_cni returned
    stdout,         \* documents printed on the output stream
    stderr,         \* error documents printed on the error stream
    exit_code,      \* exit status of the process
    ops,            \* log: external operations of this process, in order
    \* the kernel and the backend
    links,          \* namespace -> set of links
    routes,         \* namespace -> set of routes
    netns,          \* named namespaces that exist
    labels,         \* VLAN ids whose label vlan-<id> exists at the backend
    \* socni-ctl's stub client
    stub_tenant, stub_configs, stub_calls,
    \* the result accumulator and the address plan on their own
    calls,          \* calls made on a CniResult, in order
    decoded,        \* what serde_json::from_str gave back
    plans           \* address plans the closure of add_network computed

orchVars  == <<inv, prev_del, snap, registered>>
inputVars == <<cmd, stdin, args>>
aranyaVars == <<aranya, vlan_configs, query, access>>
nsVars    == <<thread_ns, fds, closure_result, netns_ret>>
outVars   == <<ret, stdout, stderr, exit_code>>
worldVars == <<links, routes, netns, labels>>
stubVars  == <<stub_tenant, stub_configs, stub_calls>>
accVars   == <<calls, decoded, plans>>
vars == <<inv, prev_del, snap, registered, cmd, stdin, args, pc, config, aranya, vlan_configs,
          query, access, thread_ns, fds, closure_result, netns_ret, result, ret,
          stdout, stderr, exit_code, ops, links, routes, netns, labels,
          stub_tenant, stub_configs, stub_calls, os_thread, calls, decoded,
          plans>>

\* ------------------------------------------------------------- data types
\* An interface name.  format!("{}.{}", master, vlan) is the dotted name
\* base.vlan; a plain name such as "eth1" has no dotted part (vlan = 0).
PlainName(s) == [base |-> s, vlan |-> 0]
vlan_name(master, vlan) == [base |-> master, vlan |-> vlan]

\* IPv4 address or CIDR a.b.c.d/prefix (prefix 0 with a host address: none).
Ip(a, b, c, d, p) == [a |-> a, b |-> b, c |-> c, d |-> d, prefix |-> p]
NoIp == Ip(0, 0, 0, 0, 0)
NoGw == [some |-> FALSE, v |-> NoIp]
Gw(ip) == [some |-> TRUE, v |-> ip]
DefaultDst == Ip(0, 0, 0, 0, 0)

\* The host namespace and the sandbox's namespace are tracked link by link.
\* "other" is some other named namespace of the node whose content is not
\* tracked: a command run there may succeed or fail.
Tracked == {"host", "tgt"}
Master == "eth0"
Roles == {"Owner", "Admin", "Operator", "Member"}
\* How a spawned `ip` ends: exit 0, exit non-zero, or it could not be run.
Outcomes == {"ok", "fail", "spawn"}

\* ----------------------------------------------------------------- inputs
StaticRoute == [dst |-> Ip(10, 0, 0, 0, 8), gw |-> Gw(Ip(10, 1, 1, 1, 0))]
RouteLists == {<<>>} \cup UNION {[1..n -> {StaticRoute}] : n \in 1..MaxRoutes}
NoIpam == [some |-> FALSE, subnet |-> FALSE, gateway |-> FALSE, routes |-> <<>>]
IpamInputs ==
    {NoIpam} \cup
    {[some |-> TRUE, subnet |-> TRUE, gateway |-> TRUE, routes |-> r] :
        r \in RouteLists}
NoMtu == [some |-> FALSE, v |-> 0]
MtuInputs == {NoMtu, [some |-> TRUE, v |-> 1500]}

\* The configuration JSON on stdin.  wellformed = FALSE: the bytes are not
\* a JSON object with the required fields of NetConf.
NoStdin == [wellformed |-> FALSE, vlan |-> 0, master |-> "", mtu |-> NoMtu,
            ipam |-> NoIpam]
Stdin(v, m) == [wellformed |-> TRUE, vlan |-> v, master |-> m, mtu |-> NoMtu,
                ipam |-> NoIpam]
ValidVlans == {100}
ValidStdin == [wellformed : {TRUE}, vlan : ValidVlans, master : {Master},
               mtu : MtuInputs, ipam : IpamInputs]
InvalidStdin == {NoStdin, Stdin(0, Master), Stdin(4095, Master), Stdin(100, "")}

\* CNI_NETNS is a bare name ("ns1") or a filesystem path
\* ("/var/run/netns/ns1"); CNI_IFNAME is "eth1" or the dotted name itself.
NoArgs == [present |-> FALSE, netns |-> "name", ifname |-> PlainName("")]
Args(form, ifname) == [present |-> TRUE, netns |-> form, ifname |-> ifname]
PresentArgs == {Args(f, i) : f \in {"name", "path"},
                i \in {PlainName("eth1")} \cup
                      {vlan_name(Master, v) : v \in ValidVlans}}
\* What a process is started with: <<stdin, environment>>.
Inputs ==
    {<<NoStdin, NoArgs>>}
    \cup (InvalidStdin \X {Args("name", PlainName("eth1"))})
    \cup (ValidStdin \X PresentArgs)

Verbs == {"ADD", "DEL", "CHECK"}
Commands == Verbs \cup {"VERSION", "BOGUS", "UNSET"}

\* ------------------------------------------------------------ NetConf::parse
NoConf == [ok |-> FALSE, err |-> "none", cni_version |-> "", master |-> "",
           vlan |-> 0, mtu |-> NoMtu, ipam |-> NoIpam]
ConfErr(e) == [NoConf EXCEPT !.err = e]

\* A variant of NetConf::parse whose upper bound is off by one
\* (`conf.vlan > 4095`).
NetConf_parse_upto4095(bytes) ==
    IF ~bytes.wellformed \/ bytes.vlan < 0 \/ bytes.vlan > U16Max
    THEN ConfErr("Failed to parse network configuration")
    ELSE IF bytes.vlan < MinVlan \/ bytes.vlan > MaxVlan + 1
    THEN ConfErr("Invalid VLAN ID")
    ELSE IF bytes.master = ""
    THEN ConfErr("Master interface name is required")
    ELSE [ok |-> TRUE, err |-> "none", cni_version |-> "1.0.0",
          master |-> bytes.master, vlan |-> bytes.vlan, mtu |-> bytes.mtu,
          ipam |-> bytes.ipam]

\* A variant of NetConf::parse without the "Validation" block.
NetConf_parse_unvalidated(bytes) ==
    IF ~bytes.wellformed \/ bytes.vlan < 0 \/ bytes.vlan > U16Max
    THEN ConfErr("Failed to parse network configuration")
    ELSE [ok |-> TRUE, err |-> "none", cni_version |-> "1.0.0",
          master |-> bytes.master, vlan |-> bytes.vlan, mtu |-> bytes.mtu,
          ipam |-> bytes.ipam]

\* serde_json::from_slice into NetConf (vlan: u16), then the validation.
NetConf_parse(bytes) ==
    IF ~bytes.wellformed \/ bytes.vlan < 0 \/ bytes.vlan > U16Max
    THEN ConfErr("Failed to parse network configuration")
    ELSE IF bytes.vlan < MinVlan \/ bytes.vlan > MaxVlan
    THEN ConfErr("Invalid VLAN ID")
    ELSE IF bytes.master = ""
    THEN ConfErr("Master interface name is required")
    ELSE [ok |-> TRUE, err |-> "none", cni_version |-> "1.0.0",
          master |-> bytes.master, vlan |-> bytes.vlan, mtu |-> bytes.mtu,
          ipam |-> bytes.ipam]

\* ------------------------------------------------------------- CniResult
NoList == [some |-> FALSE, v |-> <<>>]
Result_new(version) ==
    [cni_version |-> version, interfaces |-> NoList, ips |-> NoList,
     dns |-> FALSE, routes |-> NoList]
\* A variant of Push that puts the record in front.
Push_front(list, x) == [some |-> TRUE, v |-> <<x>> \o list.v]
\* `if x.is_none() { x = Some(Vec::new()) }`, then push.
Push(list, x) == [some |-> TRUE, v |-> Append(list.v, x)]

\* A variant of add_interface that pushes the record twice.
add_interface_twice(r, i) ==
    [r EXCEPT !.interfaces = Push(Push(r.interfaces, i), i)]
add_interface(r, i) == [r EXCEPT !.interfaces = Push(r.interfaces, i)]
add_ip(r, ip) == [r EXCEPT !.ips = Push(r.ips, ip)]
add_route(r, rt) == [r EXCEPT !.routes = Push(r.routes, rt)]
set_dns(r) == [r EXCEPT !.dns = TRUE]
NoResult == Result_new("")

\* A variant of JsonList that writes an empty list as it writes None.
JsonList_skip_empty(list) ==
    IF list.some /\ list.v # <<>> THEN [kind |-> "array", items |-> list.v]
    ELSE [kind |-> "null", items |-> <<>>]

\* serde_json::to_string_pretty(self): Result derives Serialize with no
\* skip attribute, so every field is written; a None is written as null.
JsonList(list) == IF list.some THEN [kind |-> "array", items |-> list.v]
                  ELSE [kind |-> "null", items |-> <<>>]
Serialize(r) ==
    [kind |-> "result",
     cniVersion |-> r.cni_version,
     interfaces |-> JsonList(r.interfaces),
     ips |-> JsonList(r.ips),
     dns |-> IF r.dns THEN "object" ELSE "null",
     routes |-> JsonList(r.routes)]

\* serde_json::from_str into Result, which derives Deserialize: an Option
\* field is None for null and Some of the value otherwise.
FromJsonList(j) == IF j.kind = "null" THEN NoList
                   ELSE [some |-> TRUE, v |-> j.items]
Deserialize(doc) ==
    [cni_version |-> doc.cniVersion,
     interfaces |-> FromJsonList(doc.interfaces),
     ips |-> FromJsonList(doc.ips),
     dns |-> doc.dns # "null",
     routes |-> FromJsonList(doc.routes)]

\* ------------------------------------------------------------ the records
Ok == [ok |-> TRUE, err |-> "none"]
Err(e) == [ok |-> FALSE, err |-> e]
Running == [ok |-> FALSE, err |-> "running"]
\* Result<bool>
OkBool(b) == [ok |-> TRUE, val |-> b]
ErrBool == [ok |-> FALSE, val |-> FALSE]

NoFds == [fd |-> "none", fd_ns |-> "host", cur |-> "none", orig |-> "host",
          fd_closes |-> 0, cur_closes |-> 0]
NoQuery == [asked |-> FALSE, failed |-> FALSE, label_exists |-> FALSE,
            role |-> "Member", has_label |-> FALSE]

Log(op, ok) == Append(ops, [op |-> op, ok |-> ok, ns |-> thread_ns,
                            thread |-> os_thread])

MasterLink == [name |-> PlainName(Master), vlan |-> 0, up |-> TRUE,
               addrs |-> {}]
World == [links |-> links, routes |-> routes, netns |-> netns,
          labels |-> labels]

\* --------------------------------------------------------------- initially
\* A process before its first step: VlanPlugin::new leaves aranya None, the
\* thread is in the host namespace, nothing is printed.
Fresh ==
    /\ config' = NoConf
    /\ aranya' = FALSE /\ vlan_configs' = {}
    /\ query' = NoQuery /\ access' = ErrBool
    /\ os_thread' = "main"
    /\ thread_ns' = "host" /\ fds' = NoFds
    /\ closure_result' = Running /\ netns_ret' = Running
    /\ result' = NoResult /\ ret' = Running
    /\ stdout' = <<>> /\ stderr' = <<>> /\ exit_code' = 0
    /\ ops' = <<>>

ProcInit ==
    /\ inv = 0 /\ prev_del = FALSE /\ registered = {}
    /\ cmd = "UNSET" /\ stdin = NoStdin /\ args = NoArgs
    /\ pc = "idle" /\ config = NoConf
    /\ aranya = FALSE /\ vlan_configs = {}
    /\ query = NoQuery /\ access = ErrBool
    /\ thread_ns = "host" /\ fds = NoFds
    /\ closure_result = Running /\ netns_ret = Running
    /\ result = NoResult /\ ret = Running
    /\ stdout = <<>> /\ stderr = <<>> /\ exit_code = 0
    /\ ops = <<>>
    /\ os_thread = "main"
    /\ calls = <<>> /\ decoded = NoResult /\ plans = <<>>

StubIdle ==
    /\ stub_tenant = "admin" /\ stub_configs = <<>> /\ stub_calls = <<>>

\* The node when the first process starts: the master link is there or not,
\* the sandbox's namespace exists and is empty, the VLAN's label is
\* registered at the backend or not.
Init ==
    /\ ProcInit /\ StubIdle
    /\ \E m \in SUBSET {MasterLink} :
          links = [n \in Tracked |-> IF n = "host" THEN m ELSE {}]
    /\ routes = [n \in Tracked |-> {}]
    /\ netns = {"tgt", "other"}
    /\ labels \in SUBSET ValidVlans
    /\ snap = World

\* ------------------------------------------------------- the orchestrator
\* A plugin process is started: a fresh process in the host namespace.
Invoke ==
    /\ pc = "idle" /\ inv < MaxInvocations
    /\ \E c \in Commands, i \in Inputs :
          /\ (c \notin Verbs => i = <<NoStdin, NoArgs>>)
          /\ cmd' = c /\ stdin' = i[1] /\ args' = i[2]
    /\ inv' = inv + 1
    /\ snap' = World
    /\ pc' = "run_cni"
    /\ Fresh
    /\ UNCHANGED <<prev_del, registered, worldVars, stubVars, accVars>>

\* The orchestrator collects the exit status; the process is gone.
Reap ==
    /\ pc = "exited"
    /\ pc' = "idle"
    /\ prev_del' = (cmd = "DEL" /\ exit_code = 0)
    /\ cmd' = "UNSET" /\ stdin' = NoStdin /\ args' = NoArgs
    /\ snap' = World
    /\ Fresh
    /\ UNCHANGED <<inv, registered, worldVars, stubVars, accVars>>

\* The sandbox is torn down between two invocations: its namespace goes,
\* and the links and routes in it with it.
NetnsDeleted ==
    /\ pc = "idle" /\ "tgt" \in netns
    /\ netns' = netns \ {"tgt"}
    /\ links' = [links EXCEPT !["tgt"] = {}]
    /\ routes' = [routes EXCEPT !["tgt"] = {}]
    /\ snap' = [World EXCEPT !.links = links', !.routes = routes',
                             !.netns = netns']
    /\ UNCHANGED <<inv, prev_del, registered, inputVars, pc, config,
                   aranyaVars, nsVars,
                   result, outVars, ops, labels, stubVars, os_thread, accVars>>

\* ---------------------------------------------------------------- run_cni
\* A variant of VersionDoc whose list depends on the invocation.
VersionDoc_per_invocation ==
    [kind |-> "version", cniVersion |-> "1.0.0",
     supportedVersions |-> IF inv > 1 THEN <<"1.0.0">>
                           ELSE <<"0.3.0", "0.3.1", "0.4.0", "1.0.0">>]

VersionDoc == [kind |-> "version", cniVersion |-> "1.0.0",
               supportedVersions |-> <<"0.3.0", "0.3.1", "0.4.0", "1.0.0">>]

\* run_cni: the verb is read and matched.
run_cni ==
    /\ pc = "run_cni"
    /\ IF cmd = "UNSET"
       THEN /\ ret' = Err("CNI_COMMAND not found in environment")
            /\ pc' = "main" /\ UNCHANGED stdout
       ELSE IF cmd = "VERSION"
       THEN /\ stdout' = Append(stdout, VersionDoc)
            /\ ret' = Ok /\ pc' = "main"
       ELSE IF cmd \in Verbs
       THEN /\ pc' = "cmd" /\ UNCHANGED <<ret, stdout>>
       ELSE /\ ret' = Err("Unknown CNI command")
            /\ pc' = "main" /\ UNCHANGED stdout
    /\ UNCHANGED <<orchVars, inputVars, config, aranyaVars, nsVars, result,
                   stderr, exit_code, ops, worldVars, stubVars, os_thread, accVars>>

\* cmd_add / cmd_del / cmd_check up to the call of the plugin: parse_args,
\* NetConf::parse, VlanPlugin::new.
cmd_parse ==
    /\ pc = "cmd"
    /\ IF ~args.present
       THEN /\ ret' = Err("CNI_* not found in environment")
            /\ pc' = "main" /\ UNCHANGED config
       ELSE LET conf == NetConf_parse(stdin) IN
            IF ~conf.ok
            THEN /\ ret' = Err(conf.err) /\ pc' = "main" /\ config' = conf
            ELSE /\ config' = conf /\ pc' = "init_aranya" /\ UNCHANGED ret
    /\ UNCHANGED <<orchVars, inputVars, aranyaVars, nsVars, result, stdout,
                   stderr, exit_code, ops, worldVars, stubVars, os_thread, accVars>>

\* A variant of ErrorDoc with a code of its own for a refusal.
ErrorDoc_code_by_kind(msg) ==
    [kind |-> "error", cniVersion |-> "1.0.0",
     code |-> IF msg = "Access denied by Aranya policy engine"
              THEN ErrorCode + 1 ELSE ErrorCode,
     msg |-> msg, details |-> ""]

\* main of vlan-cni: the error document and the exit status.
ErrorDoc(msg) == [kind |-> "error", cniVersion |-> "1.0.0",
                  code |-> ErrorCode, msg |-> msg, details |-> ""]
main ==
    /\ pc = "main"
    /\ IF ret.ok
       THEN exit_code' = 0 /\ UNCHANGED stderr
       ELSE exit_code' = ExitFailure /\ stderr' = Append(stderr, ErrorDoc(ret.err))
    /\ pc' = "exited"
    /\ UNCHANGED <<orchVars, inputVars, config, aranyaVars, nsVars, result,
                   ret, stdout, ops, worldVars, stubVars, os_thread, accVars>>

\* A handler returns Err(e) to run_cni, which returns it to main.
Bail(e) == ret' = Err(e) /\ pc' = "main"

\* ------------------------------------------------------------ the kernel
HasLink(ns, name) == \E l \in links[ns] : l.name = name
\* A VLAN id is taken on the master once, in whatever namespace the
\* sub-interface now lives.
VidTaken(vlan) == \E ns \in Tracked : \E l \in links[ns] : l.vlan = vlan
\* The effect of an `ip` command on the link called name in namespace ns.
SetUp(ns, name) ==
    [links EXCEPT ![ns] = {IF l.name = name THEN [l EXCEPT !.up = TRUE]
                           ELSE l : l \in @}]
SetName(ns, name, to) ==
    [links EXCEPT ![ns] = {IF l.name = name THEN [l EXCEPT !.name = to]
                           ELSE l : l \in @}]
AddAddr(ns, name, ip) ==
    [links EXCEPT ![ns] = {IF l.name = name
                           THEN [l EXCEPT !.addrs = @ \cup {ip}]
                           ELSE l : l \in @}]
\* An `ip` run in namespace ns can exit 0 only if the kernel accepts the
\* request (pre); it can always fail, or not be runnable at all.  Nothing is
\* known of the links of an untracked namespace.
Can(o, ns, pre) == IF o = "ok" /\ ns \in Tracked THEN pre ELSE TRUE

\* --------------------------------------------------------- AranyaClient
\* A variant of AranyaClient_check_vlan_access without the label test.
AranyaClient_check_vlan_access_any_label(label_exists, device_role, has_label) ==
    OkBool(has_label \/ device_role \in {"Owner", "Admin"})

\* AranyaClient::check_vlan_access when every call to the daemon answers.
AranyaClient_check_vlan_access(label_exists, device_role, has_label) ==
    IF ~label_exists
    THEN OkBool(FALSE)
    ELSE OkBool(has_label \/ device_role \in {"Owner", "Admin"})

\* ------------------------------------------------------------ VlanPlugin
\* init_aranya, as add_network, del_network and check_network call it: a
\* failure to connect leaves aranya None and the handler goes on.
\* AranyaClient's methods are taken to return, Ok or Err, as their signatures
\* say.  Each of them calls Runtime::block_on on the client's own runtime
\* while the handler runs under the Runtime::block_on of cmd_add, cmd_del or
\* cmd_check; what tokio does with a block_on inside a block_on is decided
\* outside src/ and is not modelled.
init_aranya ==
    /\ pc = "init_aranya"
    /\ \E connected \in BOOLEAN :
          /\ aranya' = connected
          /\ ops' = Log("connect", connected)
    /\ pc' = IF cmd = "DEL" THEN "in_netns" ELSE "check_vlan_access"
    /\ UNCHANGED <<orchVars, inputVars, config, vlan_configs, query, access,
                   nsVars, result, outVars, worldVars, stubVars, os_thread, accVars>>

\* A variant of NoClientAccess that refuses when there is no client.
NoClientDenied == OkBool(FALSE)

\* VlanPlugin::check_vlan_access without a client: "Allow access for
\* backward compatibility".
NoClientAccess == OkBool(TRUE)

\* VlanPlugin::check_vlan_access: the client's answer, or Ok(true) without
\* a client.  The daemon answers with the device's role and labels, or a
\* call fails.
check_vlan_access ==
    /\ pc = "check_vlan_access"
    /\ IF aranya
       THEN \E failed \in BOOLEAN, role \in Roles, has \in BOOLEAN :
               LET exists == config.vlan \in labels IN
               /\ has => exists
               /\ failed => (role = "Member" /\ ~has)
               /\ query' = [asked |-> TRUE, failed |-> failed,
                            label_exists |-> exists, role |-> role,
                            has_label |-> has]
               /\ access' = IF failed THEN ErrBool
                            ELSE AranyaClient_check_vlan_access(exists, role, has)
               /\ ops' = Log("check_vlan_access", ~failed)
       ELSE /\ access' = NoClientAccess
            /\ UNCHANGED <<query, ops>>
    /\ pc' = "access_gate"
    /\ UNCHANGED <<orchVars, inputVars, config, aranya, vlan_configs, nsVars,
                   result, outVars, worldVars, stubVars, os_thread, accVars>>

\* A variant of Denied that refuses on an error of the check as well.
DeniedOrError(a) == ~a.ok \/ ~a.val

\* A variant of Denied that lets a refusal pass.
DeniedNever(a) == FALSE

\* add_network / check_network: `if let Ok(has_access) = ... { if
\* !has_access { bail } }`.  An Err of the check is not looked at.
Denied(a) == a.ok /\ ~a.val

access_gate ==
    /\ pc = "access_gate"
    /\ IF Denied(access)
       THEN Bail("Access denied by Aranya policy engine")
       ELSE /\ pc' = IF cmd = "ADD" THEN "verify_master_interface"
                     ELSE "in_netns"
            /\ UNCHANGED ret
    /\ query' = NoQuery
    /\ UNCHANGED <<orchVars, inputVars, config, aranya, vlan_configs, access,
                   nsVars, result, stdout, stderr, exit_code, ops, worldVars,
                   stubVars, os_thread, accVars>>

\* A variant of verify_master_interface whose answer is not looked at.
verify_master_interface_unchecked ==
    /\ pc = "verify_master_interface"
    /\ \E o \in Outcomes :
          /\ Can(o, thread_ns, HasLink(thread_ns, PlainName(config.master)))
          /\ ops' = Log("link_show", o = "ok")
          /\ pc' = "link_add" /\ UNCHANGED ret
    /\ UNCHANGED <<orchVars, inputVars, config, aranyaVars, nsVars, result,
                   stdout, stderr, exit_code, worldVars, stubVars, os_thread, accVars>>

\* verify_master_interface: ip link show dev <master>.
verify_master_interface ==
    /\ pc = "verify_master_interface"
    /\ \E o \in Outcomes :
          /\ Can(o, thread_ns, HasLink(thread_ns, PlainName(config.master)))
          /\ ops' = Log("link_show", o = "ok")
          /\ IF o = "ok" THEN pc' = "link_add" /\ UNCHANGED ret
             ELSE IF o = "fail" THEN Bail("Master interface does not exist")
             ELSE Bail("Failed to execute ip link show command")
    /\ UNCHANGED <<orchVars, inputVars, config, aranyaVars, nsVars, result,
                   stdout, stderr, exit_code, worldVars, stubVars, os_thread, accVars>>

NewLink(name, vlan) == [name |-> name, vlan |-> vlan, up |-> FALSE,
                        addrs |-> {}]

\* A variant of Tolerated that lets no failed creation pass.
ToleratedNever(o) == FALSE

\* add_network: a creation that did not exit 0 is let pass when its error
\* text holds "File exists".
Tolerated(o) == o = "exists"

\* add_network: ip link add link <master> name <master>.<vlan> type vlan id
\* <vlan>.  "exists": the kernel answers "File exists", which is let pass.
link_add ==
    /\ pc = "link_add"
    /\ LET name == vlan_name(config.master, config.vlan) IN
       \E o \in Outcomes \cup {"exists"} :
          /\ Can(o, thread_ns, /\ HasLink(thread_ns, PlainName(config.master))
                               /\ ~HasLink(thread_ns, name)
                               /\ ~VidTaken(config.vlan))
          /\ o = "exists" => (HasLink(thread_ns, name) \/ VidTaken(config.vlan))
          /\ ops' = Log(IF o = "exists" THEN "link_add_exists" ELSE "link_add",
                        o = "ok")
          /\ IF o = "ok"
             THEN /\ links' = [links EXCEPT ![thread_ns] =
                                  @ \cup {NewLink(name, config.vlan)}]
                  /\ pc' = "link_up" /\ UNCHANGED ret
             ELSE IF Tolerated(o)
             THEN /\ pc' = "link_up" /\ UNCHANGED <<ret, links>>
             ELSE IF o = "spawn"
             THEN Bail("Failed to execute ip link add command")
                  /\ UNCHANGED links
             ELSE Bail("Failed to create VLAN interface") /\ UNCHANGED links
    /\ UNCHANGED <<orchVars, inputVars, config, aranyaVars, nsVars, result,
                   stdout, stderr, exit_code, routes, netns, labels, stubVars, os_thread, accVars>>

\* A variant of link_up that goes on after a non-zero exit.
link_up_warns ==
    /\ pc = "link_up"
    /\ LET name == vlan_name(config.master, config.vlan) IN
       \E o \in Outcomes :
          /\ Can(o, thread_ns, HasLink(thread_ns, name))
          /\ ops' = Log("link_up", o = "ok")
          /\ IF o # "spawn"
             THEN /\ links' = IF o = "ok" THEN SetUp(thread_ns, name)
                              ELSE links
                  /\ pc' = IF config.mtu.some THEN "link_mtu" ELSE "link_netns"
                  /\ UNCHANGED ret
             ELSE Bail("Failed to execute ip link set up command")
                  /\ UNCHANGED links
    /\ UNCHANGED <<orchVars, inputVars, config, aranyaVars, nsVars, result,
                   stdout, stderr, exit_code, routes, netns, labels, stubVars,
                   os_thread, accVars>>

\* add_network: ip link set dev <master>.<vlan> up, in the host namespace.
link_up ==
    /\ pc = "link_up"
    /\ LET name == vlan_name(config.master, config.vlan) IN
       \E o \in Outcomes :
          /\ Can(o, thread_ns, HasLink(thread_ns, name))
          /\ ops' = Log("link_up", o = "ok")
          /\ IF o = "ok"
             THEN /\ links' = SetUp(thread_ns, name)
                  /\ pc' = IF config.mtu.some THEN "link_mtu" ELSE "link_netns"
                  /\ UNCHANGED ret
             ELSE IF o = "fail"
             THEN Bail("Failed to set VLAN interface up") /\ UNCHANGED links
             ELSE Bail("Failed to execute ip link set up command")
                  /\ UNCHANGED links
    /\ UNCHANGED <<orchVars, inputVars, config, aranyaVars, nsVars, result,
                   stdout, stderr, exit_code, routes, netns, labels, stubVars, os_thread, accVars>>

\* A variant of link_mtu that bails on a non-zero exit as well.
link_mtu_fatal ==
    /\ pc = "link_mtu"
    /\ LET name == vlan_name(config.master, config.vlan) IN
       \E o \in Outcomes :
          /\ Can(o, thread_ns, HasLink(thread_ns, name))
          /\ ops' = Log("link_mtu", o = "ok")
          /\ IF o = "spawn"
             THEN Bail("Failed to execute ip link set mtu command")
             ELSE IF o = "fail"
             THEN Bail("Failed to set MTU on VLAN interface")
             ELSE pc' = "link_netns" /\ UNCHANGED ret
    /\ UNCHANGED <<orchVars, inputVars, config, aranyaVars, nsVars, result,
                   stdout, stderr, exit_code, worldVars, stubVars, os_thread, accVars>>

\* add_network: ip link set dev <master>.<vlan> mtu <mtu>, when an MTU is
\* configured.  A non-zero exit is a warning.
link_mtu ==
    /\ pc = "link_mtu"
    /\ LET name == vlan_name(config.master, config.vlan) IN
       \E o \in Outcomes :
          /\ Can(o, thread_ns, HasLink(thread_ns, name))
          /\ ops' = Log("link_mtu", o = "ok")
          /\ IF o = "spawn"
             THEN Bail("Failed to execute ip link set mtu command")
             ELSE pc' = "link_netns" /\ UNCHANGED ret
    /\ UNCHANGED <<orchVars, inputVars, config, aranyaVars, nsVars, result,
                   stdout, stderr, exit_code, worldVars, stubVars, os_thread, accVars>>

\* Where `ip ... netns <arg>` looks the namespace up: a bare name under
\* /var/run/netns, a path as it is.  Both forms name the sandbox.
IpNetns(arg) == "tgt"
MoveTo(l) == [l EXCEPT !.up = FALSE, !.addrs = {}]

\* A variant of link_netns that goes on after a non-zero exit.
link_netns_warns ==
    /\ pc = "link_netns"
    /\ LET name == vlan_name(config.master, config.vlan)
           to == IpNetns(args.netns) IN
       \E o \in Outcomes :
          /\ Can(o, thread_ns, /\ HasLink(thread_ns, name)
                               /\ to \in netns
                               /\ ~HasLink(to, name))
          /\ ops' = Log("link_netns", o = "ok")
          /\ IF o # "spawn"
             THEN /\ links' = IF o # "ok" THEN links ELSE [links EXCEPT
                       ![thread_ns] = {l \in @ : l.name # name},
                       ![to] = @ \cup {MoveTo(l) : l \in
                                  {k \in links[thread_ns] : k.name = name}}]
                  /\ result' = add_interface(Result_new(config.cni_version),
                                  [name |-> args.ifname, mac |-> FALSE,
                                   sandbox |-> args.netns])
                  /\ pc' = "in_netns" /\ UNCHANGED ret
             ELSE Bail("Failed to execute ip link set netns command")
                  /\ UNCHANGED <<links, result>>
    /\ UNCHANGED <<orchVars, inputVars, config, aranyaVars, nsVars, stdout,
                   stderr, exit_code, routes, netns, labels, stubVars, os_thread, accVars>>

\* add_network: ip link set dev <master>.<vlan> netns <CNI_NETNS>, then the
\* result is started with the interface record.
link_netns ==
    /\ pc = "link_netns"
    /\ LET name == vlan_name(config.master, config.vlan)
           to == IpNetns(args.netns) IN
       \E o \in Outcomes :
          /\ Can(o, thread_ns, /\ HasLink(thread_ns, name)
                               /\ to \in netns
                               /\ ~HasLink(to, name))
          /\ ops' = Log("link_netns", o = "ok")
          /\ IF o = "ok"
             THEN /\ links' = [links EXCEPT
                       ![thread_ns] = {l \in @ : l.name # name},
                       ![to] = @ \cup {MoveTo(l) : l \in
                                  {k \in links[thread_ns] : k.name = name}}]
                  /\ result' = add_interface(Result_new(config.cni_version),
                                  [name |-> args.ifname, mac |-> FALSE,
                                   sandbox |-> args.netns])
                  /\ pc' = "in_netns" /\ UNCHANGED ret
             ELSE IF o = "fail"
             THEN Bail("Failed to move VLAN interface to container namespace")
                  /\ UNCHANGED <<links, result>>
             ELSE Bail("Failed to execute ip link set netns command")
                  /\ UNCHANGED <<links, result>>
    /\ UNCHANGED <<orchVars, inputVars, config, aranyaVars, nsVars, stdout,
                   stderr, exit_code, routes, netns, labels, stubVars, os_thread, accVars>>

\* ---------------------------------------------------------------- in_netns
\* What libc::open can return for the buffer of
\* format!("/var/run/netns/{}", netns), which is passed without a
\* terminating NUL: open reads on into whatever bytes follow.  It finds the
\* namespace of that name, or one whose name continues it ("other"), or
\* nothing (-1).  A CNI_NETNS that is already a path gives
\* /var/run/netns//var/run/netns/..., which names nothing.
OpenTargets(arg) ==
    {"fail"} \cup (IF arg = "name" THEN netns ELSE {})

\* in_netns: let fd = open(netns_path).
netns_open ==
    /\ pc = "in_netns"
    /\ \E t \in OpenTargets(args.netns) :
          /\ ops' = Log("open_netns", t # "fail")
          /\ IF t = "fail"
             THEN /\ netns_ret' = Err("Failed to open netns")
                  /\ fds' = [fds EXCEPT !.orig = thread_ns]
                  /\ pc' = "in_netns_return"
             ELSE /\ fds' = [fds EXCEPT !.orig = thread_ns, !.fd = "open",
                                        !.fd_ns = t]
                  /\ pc' = "netns_open_cur" /\ UNCHANGED netns_ret
    /\ UNCHANGED <<orchVars, inputVars, config, aranyaVars, thread_ns,
                   closure_result, result, outVars, worldVars, stubVars, os_thread, accVars>>

\* close(2) of one of the two descriptors.
CloseFd(f) == [f EXCEPT !.fd = "closed", !.fd_closes = @ + 1]
CloseCur(f) == [f EXCEPT !.cur = "closed", !.cur_closes = @ + 1]
\* A variant of CloseBoth that closes cur_netns alone on the paths that
\* hold both descriptors.
CloseBoth_cur_only(f) == CloseCur(f)

\* The two closes of the paths that hold both descriptors.
CloseBoth(f) == CloseFd(CloseCur(f))

\* in_netns: let cur_netns = open("/proc/self/ns/net"), a literal passed
\* without a terminating NUL as well: the thread's namespace, or -1.
netns_open_cur ==
    /\ pc = "netns_open_cur"
    /\ \E opened \in BOOLEAN :
          /\ ops' = Log("open_cur", opened)
          /\ IF opened
             THEN /\ fds' = [fds EXCEPT !.cur = "open"]
                  /\ pc' = "netns_setns" /\ UNCHANGED netns_ret
             ELSE /\ fds' = CloseFd(fds)
                  /\ netns_ret' = Err("Failed to open current netns")
                  /\ pc' = "in_netns_return"
    /\ UNCHANGED <<orchVars, inputVars, config, aranyaVars, thread_ns,
                   closure_result, result, outVars, worldVars, stubVars, os_thread, accVars>>

\* A variant of ClosureEntry in which check_network passes del_network's
\* closure.
ClosureEntry_check_deletes ==
    IF cmd \in {"DEL", "CHECK"} THEN "ns_del"
    ELSE IF vlan_name(config.master, config.vlan) # args.ifname
    THEN "ns_rename" ELSE "ns_up"

\* The first step of the closure each handler passes to in_netns.
ClosureEntry ==
    IF cmd = "DEL" THEN "ns_del"
    ELSE IF cmd = "CHECK" THEN "ns_check"
    ELSE IF vlan_name(config.master, config.vlan) # args.ifname
    THEN "ns_rename" ELSE "ns_up"

\* A variant of AwaitOn that hands the closure's future to a worker thread
\* of the runtime.
AwaitOn_worker(t) == "worker"

\* `f().await` in in_netns, under Runtime::block_on(plugin.add_network()):
\* the closure's body holds no await of its own (Command::output blocks), so
\* it runs to its end in the poll of in_netns, on the thread that called
\* block_on; nothing in the plugin spawns a task.
AwaitOn(t) == t

\* A variant of netns_setns that does not look at what setns returned
\* and starts the closure in any case.
netns_setns_unchecked ==
    /\ pc = "netns_setns"
    /\ \E switched \in BOOLEAN :
          /\ ops' = Log("setns", switched)
          /\ thread_ns' = IF switched THEN fds.fd_ns ELSE thread_ns
    /\ pc' = ClosureEntry
    /\ UNCHANGED <<orchVars, inputVars, config, aranyaVars, fds, netns_ret,
                   closure_result, result, outVars, worldVars, stubVars, os_thread, accVars>>

\* in_netns: setns(fd, CLONE_NEWNET).
netns_setns ==
    /\ pc = "netns_setns"
    /\ \E switched \in BOOLEAN :
          /\ ops' = Log("setns", switched)
          /\ IF switched
             THEN /\ thread_ns' = fds.fd_ns
                  /\ os_thread' = AwaitOn(os_thread)
                  /\ pc' = ClosureEntry
                  /\ UNCHANGED <<fds, netns_ret>>
             ELSE /\ fds' = CloseBoth(fds)
                  /\ netns_ret' = Err("Failed to set netns")
                  /\ pc' = "in_netns_return"
                  /\ UNCHANGED <<thread_ns, os_thread>>
    /\ UNCHANGED <<orchVars, inputVars, config, aranyaVars, closure_result,
                   result, outVars, worldVars, stubVars, accVars>>

\* A variant of setns_cur that switches back only when the closure returned
\* Ok (`f().await?` in place of `f().await`).
setns_cur_unless_failed(f, res, ns) == IF res.ok THEN f.orig ELSE ns

\* Where the thread is once setns(cur_netns, CLONE_NEWNET) has returned 0
\* after f() returned res in namespace ns: in the namespace cur_netns was
\* opened in, whatever res is (`let result = f().await;`, no `?`).
setns_cur(f, res, ns) == f.orig

\* in_netns after f().await: setns(cur_netns, CLONE_NEWNET), the closes, and
\* the closure's result or the restore error.
netns_restore ==
    /\ pc = "netns_restore"
    /\ \E restored \in BOOLEAN :
          /\ ops' = Log("restore", restored)
          /\ IF restored
             THEN /\ thread_ns' = setns_cur(fds, closure_result, thread_ns)
                  /\ netns_ret' = closure_result
             ELSE /\ netns_ret' = Err("Failed to restore original netns")
                  /\ UNCHANGED thread_ns
    /\ fds' = CloseBoth(fds)
    /\ pc' = "in_netns_return"
    /\ UNCHANGED <<orchVars, inputVars, config, aranyaVars, closure_result,
                   result, outVars, worldVars, stubVars, os_thread, accVars>>

\* A variant of ClosureEnds in which ADD's closure registers the VLAN itself
\* once it succeeded.
ClosureEnds_registers(e) ==
    /\ closure_result' = e
    /\ pc' = IF cmd = "ADD" /\ e.ok THEN "create_vlan" ELSE "netns_restore"

\* The closure returns e: in_netns goes on to the restore.
ClosureEnds(e) == closure_result' = e /\ pc' = "netns_restore"

\* ---------------------------------------------- add_network's closure
IsDown(ns, name) == \A l \in links[ns] : l.name = name => ~l.up

\* ip link set dev <master>.<vlan> name <ifname>, when the names differ.
ns_rename ==
    /\ pc = "ns_rename"
    /\ LET from == vlan_name(config.master, config.vlan) IN
       \E o \in Outcomes :
          /\ Can(o, thread_ns, /\ HasLink(thread_ns, from)
                               /\ ~HasLink(thread_ns, args.ifname)
                               /\ IsDown(thread_ns, from))
          /\ ops' = Log("rename", o = "ok")
          /\ IF o = "ok"
             THEN /\ links' = IF thread_ns \in Tracked
                              THEN SetName(thread_ns, from, args.ifname)
                              ELSE links
                  /\ pc' = "ns_up" /\ UNCHANGED closure_result
             ELSE IF o = "fail"
             THEN ClosureEnds(Err("Failed to rename interface in container"))
                  /\ UNCHANGED links
             ELSE ClosureEnds(Err("Failed to execute ip link set name command"))
                  /\ UNCHANGED links
    /\ UNCHANGED <<orchVars, inputVars, config, aranyaVars, thread_ns, fds,
                   netns_ret, result, outVars, routes, netns, labels, stubVars, os_thread, accVars>>

\* A variant of ns_up that goes on after a non-zero exit.
ns_up_warns ==
    /\ pc = "ns_up"
    /\ \E o \in Outcomes :
          /\ Can(o, thread_ns, HasLink(thread_ns, args.ifname))
          /\ ops' = Log("up", o = "ok")
          /\ IF o # "spawn"
             THEN /\ links' = IF o = "ok" /\ thread_ns \in Tracked
                              THEN SetUp(thread_ns, args.ifname)
                              ELSE links
                  /\ IF config.ipam.some
                     THEN pc' = "ns_addr" /\ UNCHANGED closure_result
                     ELSE ClosureEnds(Ok)
             ELSE ClosureEnds(Err("Failed to execute ip link set up command in container"))
                  /\ UNCHANGED links
    /\ UNCHANGED <<orchVars, inputVars, config, aranyaVars, thread_ns, fds,
                   netns_ret, result, outVars, routes, netns, labels, stubVars,
                   os_thread, accVars>>

\* ip link set dev <ifname> up.
ns_up ==
    /\ pc = "ns_up"
    /\ \E o \in Outcomes :
          /\ Can(o, thread_ns, HasLink(thread_ns, args.ifname))
          /\ ops' = Log("up", o = "ok")
          /\ IF o = "ok"
             THEN /\ links' = IF thread_ns \in Tracked
                              THEN SetUp(thread_ns, args.ifname)
                              ELSE links
                  /\ IF config.ipam.some
                     THEN pc' = "ns_addr" /\ UNCHANGED closure_result
                     ELSE ClosureEnds(Ok)
             ELSE IF o = "fail"
             THEN ClosureEnds(Err("Failed to set interface up in container"))
                  /\ UNCHANGED links
             ELSE ClosureEnds(Err("Failed to execute ip link set up command in container"))
                  /\ UNCHANGED links
    /\ UNCHANGED <<orchVars, inputVars, config, aranyaVars, thread_ns, fds,
                   netns_ret, result, outVars, routes, netns, labels, stubVars, os_thread, accVars>>

\* A variant of AllocIp that does not reduce the VLAN id.
AllocIp_no_wrap(vlan_id) == Ip(192, 168, vlan_id, 2, 24)

\* "Use a simple allocation based on VLAN ID": the address and the gateway.
Octet == 256
AllocIp(vlan_id) == Ip(192, 168, vlan_id % Octet, 2, 24)
AllocGateway(vlan_id) == Ip(192, 168, vlan_id % Octet, 1, 0)
HasAddr(ns, name, ip) == \E l \in links[ns] : l.name = name /\ ip \in l.addrs

\* ip addr add <ip> dev <ifname>, when an address plan is configured.
ns_addr ==
    /\ pc = "ns_addr"
    /\ LET ip == AllocIp(config.vlan) IN
       \E o \in Outcomes :
          /\ Can(o, thread_ns, /\ HasLink(thread_ns, args.ifname)
                               /\ ~HasAddr(thread_ns, args.ifname, ip))
          /\ ops' = Log("addr_add", o = "ok")
          /\ IF o = "ok"
             THEN /\ links' = IF thread_ns \in Tracked
                              THEN AddAddr(thread_ns, args.ifname, ip)
                              ELSE links
                  /\ pc' = "ns_route" /\ UNCHANGED closure_result
             ELSE IF o = "fail"
             THEN ClosureEnds(Err("Failed to add IP address to interface"))
                  /\ UNCHANGED links
             ELSE ClosureEnds(Err("Failed to execute ip addr add command"))
                  /\ UNCHANGED links
    /\ UNCHANGED <<orchVars, inputVars, config, aranyaVars, thread_ns, fds,
                   netns_ret, result, outVars, routes, netns, labels, stubVars, os_thread, accVars>>

RECURSIVE AddRoutes(_, _)
\* `for route in routes { result_ref.add_route(...) }`
AddRoutes(r, list) ==
    IF list = <<>> THEN r
    ELSE AddRoutes(add_route(r, Head(list)), Tail(list))

\* What the closure records after the address: the address, the default
\* route, then the plan's static routes.
RecordPlan(r, ip, gateway, ipam) ==
    AddRoutes(add_route(add_ip(r, [interface |-> FALSE, address |-> ip,
                                   gateway |-> Gw(gateway)]),
                        [dst |-> DefaultDst, gw |-> Gw(gateway)]),
              ipam.routes)

\* A variant of ns_route that ends the closure on a non-zero exit as well.
ns_route_fatal ==
    /\ pc = "ns_route"
    /\ LET ip == AllocIp(config.vlan)
           gateway == AllocGateway(config.vlan) IN
       \E o \in Outcomes :
          /\ Can(o, thread_ns,
                 /\ \E l \in links[thread_ns] : l.up /\ ip \in l.addrs
                 /\ ~\E rt \in routes[thread_ns] : rt.dst = DefaultDst)
          /\ ops' = Log("route_add", o = "ok")
          /\ routes' = IF o = "ok" /\ thread_ns \in Tracked
                       THEN [routes EXCEPT ![thread_ns] = @ \cup
                              {[dst |-> DefaultDst, gw |-> Gw(gateway)]}]
                       ELSE routes
          /\ IF o = "spawn"
             THEN /\ ClosureEnds(Err("Failed to execute ip route add command"))
                  /\ UNCHANGED result
             ELSE IF o = "fail"
             THEN /\ ClosureEnds(Err("Failed to add default route"))
                  /\ UNCHANGED result
             ELSE /\ result' = RecordPlan(result, ip, gateway, config.ipam)
                  /\ ClosureEnds(Ok)
    /\ UNCHANGED <<orchVars, inputVars, config, aranyaVars, thread_ns, fds,
                   netns_ret, outVars, links, netns, labels, stubVars, os_thread, accVars>>

\* ip route add default via <gateway>; a non-zero exit is a warning.  Then
\* the records are added to the result.
ns_route ==
    /\ pc = "ns_route"
    /\ LET ip == AllocIp(config.vlan)
           gateway == AllocGateway(config.vlan) IN
       \E o \in Outcomes :
          /\ Can(o, thread_ns,
                 /\ \E l \in links[thread_ns] : l.up /\ ip \in l.addrs
                 /\ ~\E rt \in routes[thread_ns] : rt.dst = DefaultDst)
          /\ ops' = Log("route_add", o = "ok")
          /\ routes' = IF o = "ok" /\ thread_ns \in Tracked
                       THEN [routes EXCEPT ![thread_ns] = @ \cup
                              {[dst |-> DefaultDst, gw |-> Gw(gateway)]}]
                       ELSE routes
          /\ IF o = "spawn"
             THEN /\ ClosureEnds(Err("Failed to execute ip route add command"))
                  /\ UNCHANGED result
             ELSE /\ result' = RecordPlan(result, ip, gateway, config.ipam)
                  /\ ClosureEnds(Ok)
    /\ UNCHANGED <<orchVars, inputVars, config, aranyaVars, thread_ns, fds,
                   netns_ret, outVars, links, netns, labels, stubVars, os_thread, accVars>>

\* A variant of add_return that goes on to the registration whatever
\* in_netns returned.
add_return_unchecked ==
    /\ pc = "in_netns_return" /\ cmd = "ADD"
    /\ pc' = "create_vlan"
    /\ UNCHANGED <<orchVars, inputVars, config, aranyaVars, nsVars, result,
                   ret, stdout, stderr, exit_code, ops, worldVars, stubVars, os_thread, accVars>>

\* add_network: `.await?` on in_netns.
add_return ==
    /\ pc = "in_netns_return" /\ cmd = "ADD"
    /\ IF netns_ret.ok
       THEN pc' = "create_vlan" /\ UNCHANGED ret
       ELSE Bail(netns_ret.err)
    /\ UNCHANGED <<orchVars, inputVars, config, aranyaVars, nsVars, result,
                   stdout, stderr, exit_code, ops, worldVars, stubVars, os_thread, accVars>>

\* A variant of create_vlan that returns the client's error.
create_vlan_fatal ==
    /\ pc = "create_vlan"
    /\ IF aranya
       THEN \E o \in {"ok", "label_failed", "device_failed"} :
               /\ ops' = Log("create_vlan", o = "ok")
               /\ labels' = IF o = "label_failed" THEN labels
                            ELSE labels \cup {config.vlan}
               /\ registered' = IF o = "label_failed" THEN registered
                                ELSE registered \cup {config.vlan}
               /\ vlan_configs' = IF o = "ok"
                                  THEN vlan_configs \cup {config.vlan}
                                  ELSE vlan_configs
               /\ IF o = "ok" THEN pc' = "print" /\ UNCHANGED ret
                  ELSE Bail("Failed to register VLAN with Aranya")
       ELSE /\ UNCHANGED <<ops, labels, registered, vlan_configs, ret>>
            /\ pc' = "print"
    /\ UNCHANGED <<inv, prev_del, snap, inputVars, config, aranya, query,
                   access, nsVars, result, stdout, stderr, exit_code, links,
                   routes, netns, stubVars, os_thread, accVars>>

\* add_network: "Register VLAN with Aranya", when there is a client; an
\* error is a warning.  AranyaClient::create_vlan creates the label, then
\* asks for the device id and stores the VLAN in vlan_configs; either call
\* can fail.
create_vlan ==
    /\ pc = "create_vlan"
    /\ IF aranya
       THEN \E o \in {"ok", "label_failed", "device_failed"} :
               /\ ops' = Log("create_vlan", o = "ok")
               /\ labels' = IF o = "label_failed" THEN labels
                            ELSE labels \cup {config.vlan}
               /\ registered' = IF o = "label_failed" THEN registered
                                ELSE registered \cup {config.vlan}
               /\ vlan_configs' = IF o = "ok"
                                  THEN vlan_configs \cup {config.vlan}
                                  ELSE vlan_configs
       ELSE UNCHANGED <<ops, labels, registered, vlan_configs>>
    /\ pc' = "print"
    /\ UNCHANGED <<inv, prev_del, snap, inputVars, config, aranya, query,
                   access, nsVars, result, outVars, links, routes, netns,
                   stubVars, os_thread, accVars>>

\* cmd_add: result.print()?, Ok(()).
cmd_add_print ==
    /\ pc = "print"
    /\ stdout' = Append(stdout, Serialize(result))
    /\ ret' = Ok
    /\ pc' = "main"
    /\ UNCHANGED <<orchVars, inputVars, config, aranyaVars, nsVars, result,
                   stderr, exit_code, ops, worldVars, stubVars, os_thread, accVars>>

\* ---------------------------------------------- del_network's closure
\* ip link delete <ifname>; a non-zero exit is a warning.
ns_del ==
    /\ pc = "ns_del"
    /\ \E o \in Outcomes :
          /\ Can(o, thread_ns, HasLink(thread_ns, args.ifname))
          /\ ops' = Log("link_delete", o = "ok")
          /\ IF o = "ok" /\ thread_ns \in Tracked
             THEN /\ links' = [links EXCEPT ![thread_ns] =
                                  {l \in @ : l.name # args.ifname}]
                  /\ routes' = IF \E l \in links[thread_ns] :
                                     l.name = args.ifname /\ l.addrs # {}
                               THEN [routes EXCEPT ![thread_ns] = {}]
                               ELSE routes
             ELSE UNCHANGED <<links, routes>>
          /\ IF o = "spawn"
             THEN ClosureEnds(Err("Failed to execute ip link delete command"))
             ELSE ClosureEnds(Ok)
    /\ UNCHANGED <<orchVars, inputVars, config, aranyaVars, thread_ns, fds,
                   netns_ret, result, outVars, netns, labels, stubVars, os_thread, accVars>>

\* A variant of del_network_result that hands on what in_netns returned
\* (`self.in_netns(..).await?`).
del_network_propagates(r) == r

\* What del_network returns when in_netns returned r: Ok(()), always.
del_network_result(r) == Ok

\* del_network after `if let Ok(()) = self.in_netns(..)`: "Deregister VLAN
\* from Aranya", when there is a client; an error is a warning.
\* AranyaClient::delete_vlan deletes the label only of a VLAN that is in
\* this process's vlan_configs.  Then Ok(()).
del_return ==
    /\ pc = "in_netns_return" /\ cmd = "DEL"
    /\ IF aranya /\ config.vlan \in vlan_configs
       THEN \E deleted \in BOOLEAN :
               /\ ops' = Log("delete_label", deleted)
               /\ labels' = IF deleted THEN labels \ {config.vlan} ELSE labels
               /\ registered' = IF deleted THEN registered \ {config.vlan}
                                ELSE registered
               /\ vlan_configs' = IF deleted THEN vlan_configs \ {config.vlan}
                                  ELSE vlan_configs
       ELSE UNCHANGED <<ops, labels, registered, vlan_configs>>
    /\ ret' = del_network_result(netns_ret)
    /\ pc' = "main"
    /\ UNCHANGED <<inv, prev_del, snap, inputVars, config, aranya, query,
                   access, nsVars, result, stdout, stderr, exit_code, links,
                   routes, netns, stubVars, os_thread, accVars>>

\* -------------------------------------------- check_network's closure
\* ip addr show dev <ifname> and the three tests of its output.  Whether
\* the text `ip` prints holds "vlan <id>" is the tool's business (tagged).
ns_check ==
    /\ pc = "ns_check"
    /\ \E o \in Outcomes, tagged \in BOOLEAN :
          /\ Can(o, thread_ns, HasLink(thread_ns, args.ifname))
          /\ o # "ok" => ~tagged
          /\ ops' = Log("addr_show", o = "ok")
          /\ LET inet == IF thread_ns \in Tracked
                         THEN \E l \in links[thread_ns] :
                                 l.name = args.ifname /\ l.addrs # {}
                         ELSE tagged IN
             IF o = "spawn"
             THEN ClosureEnds(Err("Failed to execute ip addr show command"))
             ELSE IF o = "fail"
             THEN ClosureEnds(Err("Interface does not exist in container namespace"))
             ELSE IF ~tagged
             THEN ClosureEnds(Err("Interface is not VLAN"))
             ELSE IF config.ipam.some /\ ~inet
             THEN ClosureEnds(Err("Interface has no IP address"))
             ELSE ClosureEnds(Ok)
    /\ UNCHANGED <<orchVars, inputVars, config, aranyaVars, thread_ns, fds,
                   netns_ret, result, outVars, worldVars, stubVars, os_thread, accVars>>

\* check_network: `.await?` on in_netns, Ok(()).
check_return ==
    /\ pc = "in_netns_return" /\ cmd = "CHECK"
    /\ IF netns_ret.ok
       THEN ret' = Ok /\ pc' = "main"
       ELSE Bail(netns_ret.err)
    /\ UNCHANGED <<orchVars, inputVars, config, aranyaVars, nsVars, result,
                   stdout, stderr, exit_code, ops, worldVars, stubVars, os_thread, accVars>>

\* ------------------------------------------------ NetConf::parse alone
\* The configurations SpecParse hands to cmd_parse.
RawVlans == (-RawVlanLow .. RawVlanHigh) \cup {U16Max - 1, U16Max, U16Max + 1}
ParseInputs ==
    {NoStdin} \cup
    [wellformed : {TRUE}, vlan : RawVlans, master : {"", Master},
     mtu : {NoMtu}, ipam : {NoIpam}]

InitParse ==
    /\ inv = 1 /\ prev_del = FALSE /\ registered = {}
    /\ cmd \in Verbs /\ stdin \in ParseInputs
    /\ args = Args("name", PlainName("eth1"))
    /\ pc = "cmd" /\ config = NoConf
    /\ aranya = FALSE /\ vlan_configs = {}
    /\ query = NoQuery /\ access = ErrBool
    /\ thread_ns = "host" /\ fds = NoFds
    /\ closure_result = Running /\ netns_ret = Running
    /\ result = NoResult /\ ret = Running
    /\ stdout = <<>> /\ stderr = <<>> /\ exit_code = 0
    /\ ops = <<>>
    /\ os_thread = "main"
    /\ calls = <<>> /\ decoded = NoResult /\ plans = <<>>
    /\ StubIdle
    /\ links = [n \in Tracked |-> IF n = "host" THEN {MasterLink} ELSE {}]
    /\ routes = [n \in Tracked |-> {}]
    /\ netns = {"tgt", "other"}
    /\ labels = {}
    /\ snap = World

NextParse == cmd_parse

SpecParse == InitParse /\ [][NextParse]_vars

\* ------------------------------------------- socni-ctl's stub AranyaClient
Tenants == {"admin", "tenant1"}
CtlVlans == {100, 200}
\* The policy of the access tests: the rule admin_full_access gives
\* sdwan:admin to the subject tenant:admin alone.
IsAdmin(t) == t = "admin"

\* vlan_configs: HashMap<u16, bool>
StubGet(m, v) == IF v \in DOMAIN m THEN m[v] ELSE FALSE
StubInsert(m, v) == [k \in DOMAIN m \cup {v} |-> IF k = v THEN TRUE ELSE m[k]]
\* A variant of StubRemove that leaves the map as it was.
StubRemove_keeps(m, v) == m

StubRemove(m, v) == [k \in DOMAIN m \ {v} |-> m[k]]
EmptyMap == [k \in {} |-> TRUE]

Call(op, v, t, before, after, ok, val) ==
    [op |-> op, vlan |-> v, by |-> stub_tenant, target |-> t,
     before |-> before, after |-> after, ok |-> ok, val |-> val]

\* AranyaClient::create_vlan of the stub
stub_create_vlan ==
    /\ Len(stub_calls) < MaxCtlCalls
    /\ \E v \in CtlVlans :
          /\ stub_configs' = StubInsert(stub_configs, v)
          /\ stub_calls' = Append(stub_calls,
                Call("create", v, stub_tenant, stub_configs, stub_configs',
                     TRUE, FALSE))
    /\ UNCHANGED stub_tenant

\* AranyaClient::grant_vlan_access of the stub
stub_grant_vlan_access ==
    /\ Len(stub_calls) < MaxCtlCalls
    /\ \E v \in CtlVlans, t \in Tenants :
          /\ stub_configs' = StubInsert(stub_configs, v)
          /\ stub_calls' = Append(stub_calls,
                Call("grant", v, t, stub_configs, stub_configs', TRUE, FALSE))
    /\ UNCHANGED stub_tenant

\* AranyaClient::revoke_vlan_access of the stub
stub_revoke_vlan_access ==
    /\ Len(stub_calls) < MaxCtlCalls
    /\ \E v \in CtlVlans, t \in Tenants :
          /\ stub_configs' = StubRemove(stub_configs, v)
          /\ stub_calls' = Append(stub_calls,
                Call("revoke", v, t, stub_configs, stub_configs', TRUE, FALSE))
    /\ UNCHANGED stub_tenant

\* AranyaClient::check_vlan_access of the stub
stub_check_vlan_access ==
    /\ Len(stub_calls) < MaxCtlCalls
    /\ \E v \in CtlVlans :
          stub_calls' = Append(stub_calls,
                Call("check", v, stub_tenant, stub_configs, stub_configs,
                     TRUE, StubGet(stub_configs, v)))
    /\ UNCHANGED <<stub_tenant, stub_configs>>

\* AranyaClient::new of the stub, for the tenant given on the command line.
InitCtl ==
    /\ ProcInit
    /\ stub_tenant \in Tenants /\ stub_configs = EmptyMap /\ stub_calls = <<>>
    /\ links = [n \in Tracked |-> IF n = "host" THEN {MasterLink} ELSE {}]
    /\ routes = [n \in Tracked |-> {}]
    /\ netns = {"tgt", "other"}
    /\ labels = {}
    /\ snap = World

procVars == <<orchVars, inputVars, pc, config, aranyaVars, nsVars, result,
              outVars, ops, worldVars, os_thread, accVars>>

NextCtl ==
    \/ stub_create_vlan /\ UNCHANGED procVars
    \/ stub_grant_vlan_access /\ UNCHANGED procVars
    \/ stub_revoke_vlan_access /\ UNCHANGED procVars
    \/ stub_check_vlan_access /\ UNCHANGED procVars

SpecCtl == InitCtl /\ [][NextCtl]_vars

\* ------------------------------------------------- the CniResult on its own
\* A result as a caller can build it: Result::new, or a struct literal as
\* in test_cni_result_serialization, where a list is None or Some(vec![]).
Versions == {"0.4.0", "1.0.0"}
EmptyList == [some |-> TRUE, v |-> <<>>]
Interfaces == {[name |-> PlainName(n), mac |-> FALSE, sandbox |-> "name"] :
                  n \in {"eth1", "eth2"}}
IPConfigs == {[interface |-> FALSE, address |-> Ip(192, 168, 100, d, 24),
               gateway |-> Gw(Ip(192, 168, 100, 1, 0))] : d \in {2, 3}}
Routes == {StaticRoute, [dst |-> DefaultDst, gw |-> Gw(Ip(192, 168, 100, 1, 0))]}

InitResult ==
    /\ inv = 1 /\ prev_del = FALSE /\ registered = {}
    /\ cmd = "UNSET" /\ stdin = NoStdin /\ args = NoArgs
    /\ config = NoConf
    /\ aranya = FALSE /\ vlan_configs = {}
    /\ query = NoQuery /\ access = ErrBool
    /\ thread_ns = "host" /\ fds = NoFds /\ os_thread = "main"
    /\ closure_result = Running /\ netns_ret = Running
    /\ ret = Running
    /\ stdout = <<>> /\ stderr = <<>> /\ exit_code = 0
    /\ ops = <<>>
    /\ calls = <<>> /\ decoded = NoResult /\ plans = <<>>
    /\ StubIdle
    /\ links = [n \in Tracked |-> {}] /\ routes = [n \in Tracked |-> {}]
    /\ netns = {"tgt", "other"} /\ labels = {}
    /\ snap = World
    /\ pc = "acc"
    /\ result \in [cni_version : Versions, interfaces : {NoList, EmptyList},
                   ips : {NoList, EmptyList}, dns : BOOLEAN,
                   routes : {NoList, EmptyList}]

accFrame == <<orchVars, inputVars, config, aranyaVars, nsVars, ret, stderr,
              exit_code, ops, worldVars, stubVars, os_thread, plans>>

\* One more call on the accumulator.
Called(op, arg) ==
    /\ pc = "acc" /\ Len(calls) < MaxCalls
    /\ calls' = Append(calls, [op |-> op, arg |-> arg])
    /\ UNCHANGED <<pc, stdout, decoded, accFrame>>

call_add_interface ==
    \E i \in Interfaces :
        result' = add_interface(result, i) /\ Called("add_interface", i)
call_add_ip ==
    \E ip \in IPConfigs : result' = add_ip(result, ip) /\ Called("add_ip", ip)
call_add_route ==
    \E rt \in Routes : result' = add_route(result, rt) /\ Called("add_route", rt)
call_set_dns == result' = set_dns(result) /\ Called("set_dns", TRUE)

\* serde_json::to_string(&result)
call_to_string ==
    /\ pc = "acc"
    /\ stdout' = <<Serialize(result)>>
    /\ pc' = "printed"
    /\ UNCHANGED <<result, calls, decoded, accFrame>>

\* serde_json::from_str(&serialized)
call_from_str ==
    /\ pc = "printed"
    /\ decoded' = Deserialize(stdout[1])
    /\ pc' = "decoded"
    /\ UNCHANGED <<result, calls, stdout, accFrame>>

NextResult ==
    \/ call_add_interface \/ call_add_ip \/ call_add_route \/ call_set_dns
    \/ call_to_string \/ call_from_str

SpecResult == InitResult /\ [][NextResult]_vars

\* ------------------------------------------------ the address plan on its own
\* The address plan of add_network's closure for ADDs of several sandboxes:
\* valid VLAN ids on both sides of 256, a subnet and a gateway in the ipam
\* block or not.
PlanVlans == {1, 100, 257, 356, 4094}
PlanIpams == [subnet : {NoIp, Ip(10, 10, 0, 0, 16)},
              range : {"", "10.10.0.10-10.10.0.20"},
              gateway : {NoIp, Ip(10, 10, 0, 1, 0)}]
Sandboxes == {"ns1", "ns2"}

InitPlan ==
    /\ inv = 1 /\ prev_del = FALSE /\ registered = {}
    /\ cmd = "ADD" /\ stdin = NoStdin /\ args = NoArgs
    /\ pc = "ns_addr" /\ config = NoConf
    /\ aranya = FALSE /\ vlan_configs = {}
    /\ query = NoQuery /\ access = ErrBool
    /\ thread_ns = "host" /\ fds = NoFds /\ os_thread = "main"
    /\ closure_result = Running /\ netns_ret = Running
    /\ result = NoResult /\ ret = Running
    /\ stdout = <<>> /\ stderr = <<>> /\ exit_code = 0
    /\ ops = <<>>
    /\ calls = <<>> /\ decoded = NoResult /\ plans = <<>>
    /\ StubIdle
    /\ links = [n \in Tracked |-> {}] /\ routes = [n \in Tracked |-> {}]
    /\ netns = {"tgt", "other"} /\ labels = {}
    /\ snap = World

\* `let ip = format!(..); let gateway = format!(..);` for one ADD.
plan_alloc ==
    /\ Len(plans) < MaxPlans
    /\ \E v \in PlanVlans, ipam \in PlanIpams, sandbox \in Sandboxes :
          plans' = Append(plans, [vlan |-> v, ipam |-> ipam,
                                  sandbox |-> sandbox,
                                  ip |-> AllocIp(v),
                                  gateway |-> AllocGateway(v)])
    /\ UNCHANGED <<orchVars, inputVars, pc, config, aranyaVars, nsVars, result,
                   outVars, ops, worldVars, stubVars, os_thread, calls,
                   decoded>>

NextPlan == plan_alloc

SpecPlan == InitPlan /\ [][NextPlan]_vars

Next ==
    \/ Invoke \/ Reap \/ NetnsDeleted
    \/ run_cni \/ cmd_parse \/ main
    \/ init_aranya \/ check_vlan_access \/ access_gate
    \/ verify_master_interface \/ link_add \/ link_up \/ link_mtu
    \/ link_netns
    \/ netns_open \/ netns_open_cur \/ netns_setns \/ netns_restore
    \/ ns_rename \/ ns_up \/ ns_addr \/ ns_route
    \/ add_return \/ create_vlan \/ cmd_add_print
    \/ ns_del \/ del_return
    \/ ns_check \/ check_return

Spec == Init /\ [][Next]_vars

\* ------------------------------------------------------------- properties
Tried(op) == \E i \in 1..Len(ops) : ops[i].op = op
Did(op) == \E i \in 1..Len(ops) : ops[i].op = op /\ ops[i].ok
RestoreFailedMsg == "Failed to restore original netns"
DeniedMsg == "Access denied by Aranya policy engine"
\* The process is past the authorization gate or has ended.
PastGate == pc \notin {"idle", "run_cni", "cmd", "init_aranya",
                       "check_vlan_access", "access_gate"}
\* The backend could not be reached: no client, or the check call failed.
BackendUnavailable ==
    \E i \in 1..Len(ops) :
        ops[i].op \in {"connect", "check_vlan_access"} /\ ~ops[i].ok

\* C1 as stated: whenever in_netns returns, whether the closure succeeded
\* or failed, the thread is back in the namespace it was in at the call.
C1_AlwaysRestored ==
    pc = "in_netns_return" => thread_ns = fds.orig

\* C1 amended: whenever in_netns returns anything but the restore error,
\* whether the closure succeeded or failed, the thread is back in the
\* namespace it was in at the call; when the restoring setns fails,
\* in_netns returns "Failed to restore original netns" and the thread is
\* still in the namespace it entered.
C1_RestoredUnlessRestoreFails ==
    pc = "in_netns_return" =>
        /\ netns_ret.err # RestoreFailedMsg => thread_ns = fds.orig
        /\ netns_ret.err = RestoreFailedMsg =>
              ~netns_ret.ok /\ thread_ns = fds.fd_ns

\* in_netns returns after the closure failed inside the entered namespace,
\* and the thread is back where it was.
C1_Witness ==
    /\ pc = "in_netns_return" /\ Did("setns") /\ Did("restore")
    /\ ~closure_result.ok /\ closure_result.err # "running"
    /\ fds.fd_ns # fds.orig /\ thread_ns = fds.orig

\* C2: an ADD that fails after it created the VLAN link deletes the link
\* again before it returns the error.
C2_CleanupOnFailure ==
    (cmd = "ADD" /\ pc = "exited" /\ exit_code # 0 /\ Did("link_add")) =>
        Tried("link_delete") /\ ~VidTaken(config.vlan)

\* C3: when ADD ends with success, the link is in the sandbox's namespace
\* under the requested name, up, and with the allocated address when an
\* IPAM block was configured.
C3_AddPostcondition ==
    (cmd = "ADD" /\ pc = "exited" /\ exit_code = 0) =>
        \E l \in links[IpNetns(args.netns)] :
            /\ l.name = args.ifname /\ l.vlan = config.vlan /\ l.up
            /\ config.ipam.some => AllocIp(config.vlan) \in l.addrs

\* C4: when the access check of ADD or CHECK answers "no access", the
\* handler fails with the denial before any command is run and before any
\* namespace is entered: only the backend was talked to, the links, routes
\* and labels are as they were at the start, nothing is printed.
C4_DenialBeforeAnyNetworkOp ==
    (cmd \in {"ADD", "CHECK"} /\ access = OkBool(FALSE)
       /\ pc # "access_gate") =>
        /\ pc \in {"main", "exited"} /\ ret = Err(DeniedMsg)
        /\ \A i \in 1..Len(ops) :
              ops[i].op \in {"connect", "check_vlan_access"}
        /\ World = snap /\ thread_ns = "host" /\ fds = NoFds
        /\ stdout = <<>>

\* An ADD that was denied although the master link was there to build on.
C4_Witness ==
    /\ cmd = "ADD" /\ pc = "exited" /\ access = OkBool(FALSE)
    /\ exit_code = ExitFailure /\ MasterLink \in links["host"]

\* C5 as stated: when the backend is unavailable, ADD is denied and no
\* link is created.
C5_FailClosed ==
    (cmd = "ADD" /\ pc = "exited" /\ BackendUnavailable) =>
        exit_code # 0 /\ ~Tried("link_add")

\* C5 amended: when the backend is unavailable (the client cannot be
\* initialised, or the access check returns an error), ADD is not denied:
\* it passes the authorization gate and goes on to the master lookup.
C5_FailOpen ==
    (cmd = "ADD" /\ BackendUnavailable /\ PastGate) =>
        /\ ret.err # DeniedMsg
        /\ pc = "verify_master_interface" \/ Tried("link_show")

\* An ADD that succeeded, link and all, with the backend unavailable.
C5_Witness ==
    /\ cmd = "ADD" /\ pc = "exited" /\ exit_code = 0
    /\ BackendUnavailable /\ Did("link_add")

\* C6: a device whose role is Owner or Admin passes the access check for
\* every VLAN, registered or not, labelled or not.
C6_AdminAlwaysPasses ==
    (pc = "access_gate" /\ query.asked /\ ~query.failed
       /\ query.role \in {"Owner", "Admin"}) =>
        access = OkBool(TRUE)

\* C7: create, grant and revoke by a subject that is not an admin fail and
\* leave the VLANs and grants as they were.
C7_MutationsAuthorised ==
    \A i \in 1..Len(stub_calls) :
        (stub_calls[i].op \in {"create", "grant", "revoke"}
           /\ ~IsAdmin(stub_calls[i].by)) =>
            ~stub_calls[i].ok /\ stub_calls[i].after = stub_calls[i].before

\* C8: for a well-formed configuration with a non-empty master,
\* NetConf::parse succeeds exactly when the VLAN id is in 1..4094; the
\* handler goes on with that id on success and ends with an error
\* otherwise.
C8_ParseAcceptsExactlyValidVlans ==
    (pc # "cmd" /\ stdin.wellformed /\ stdin.master # "") =>
        /\ config.ok <=> (stdin.vlan >= 1 /\ stdin.vlan <= 4094)
        /\ config.ok => config.vlan = stdin.vlan /\ pc = "init_aranya"
        /\ ~config.ok => pc = "main" /\ ~ret.ok /\ ret.err = config.err

\* The largest VLAN id is accepted.
C8_Witness ==
    /\ pc = "init_aranya" /\ stdin.wellformed /\ stdin.master # ""
    /\ stdin.vlan = 4094 /\ config.ok

\* The configuration on stdin does not pass validation.
InvalidConf ==
    \/ ~stdin.wellformed
    \/ stdin.vlan < 1 \/ stdin.vlan > 4094
    \/ stdin.master = ""

\* C9: when the configuration does not pass validation, ADD, DEL and CHECK
\* end with an error before any command is run, any namespace is entered
\* or the backend is called.
C9_ValidationFirst ==
    (cmd \in Verbs /\ args.present /\ InvalidConf
       /\ pc \notin {"run_cni", "cmd"}) =>
        /\ pc \in {"main", "exited"} /\ ~ret.ok /\ ret.err # "running"
        /\ ops = <<>> /\ thread_ns = "host" /\ fds = NoFds
        /\ World = snap /\ stdout = <<>>

\* A DEL with VLAN id 4095 has ended with an error while the link it names
\* is in the sandbox.
C9_Witness ==
    /\ cmd = "DEL" /\ pc = "exited" /\ args.present /\ stdin.wellformed
    /\ stdin.vlan = 4095 /\ exit_code = ExitFailure /\ ops = <<>>
    /\ links["tgt"] # {}

\* C10: del_network returns success whatever happened in it, so a DEL with
\* a valid configuration exits 0, the first time and again.
C10_DelAlwaysSucceeds ==
    (cmd = "DEL" /\ config.ok /\ pc \in {"main", "exited"}) =>
        ret.ok /\ (pc = "exited" => exit_code = 0)

\* A second DEL, after a first that succeeded, finds nothing to delete and
\* exits 0 all the same.
C10_Witness ==
    /\ prev_del /\ cmd = "DEL" /\ pc = "exited" /\ exit_code = 0
    /\ Tried("link_delete") /\ ~Did("link_delete")

\* C11: when a DEL has a client and finds the label vlan-<id> that an
\* earlier ADD registered, it issues the deletion of that label before it
\* returns.
C11_DelDeregisters ==
    (cmd = "DEL" /\ pc \in {"main", "exited"} /\ config.ok /\ aranya
       /\ config.vlan \in registered /\ config.vlan \in snap.labels) =>
        Tried("delete_label")

\* The links that carry VLAN id v, in whatever tracked namespace.
VlanLinks(v) ==
    UNION {{<<ns, l>> : l \in {k \in links[ns] : k.vlan = v}} : ns \in Tracked}

\* C12: when the creation step of ADD is answered "File exists" (the link
\* for this master and VLAN id was created before), ADD does not fail
\* there: its next step is the host-side up, and there is exactly one link
\* for the master and VLAN id.
C12_ExistingLinkTolerated ==
    \A i \in 1..Len(ops) :
        ops[i].op = "link_add_exists" =>
            /\ IF i = Len(ops)
               THEN pc = "link_up" /\ ret = Running
               ELSE ops[i + 1].op = "link_up"
            /\ Cardinality(VlanLinks(config.vlan)) = 1

\* A second ADD, whose creation step found the link of a first, has
\* succeeded.
C12_Witness ==
    /\ cmd = "ADD" /\ pc = "exited" /\ exit_code = 0
    /\ Tried("link_add_exists") /\ ~Tried("link_add")

\* C13: every result document printed leaves out the lists that were never
\* populated: interfaces, ips and routes are absent or arrays with entries,
\* dns is absent or an object; none is written as null.
C13_EmptyListsOmitted ==
    \A i \in 1..Len(stdout) :
        stdout[i].kind = "result" =>
            /\ \A f \in {"interfaces", "ips", "routes"} :
                  \/ stdout[i][f].kind = "absent"
                  \/ stdout[i][f].kind = "array" /\ stdout[i][f].items # <<>>
            /\ stdout[i].dns \in {"absent", "object"}

\* C14: when CHECK ends with success, the interface is in the sandbox's
\* namespace, is up and, when an address plan is configured, carries an
\* address.
C14_CheckVerifies ==
    (cmd = "CHECK" /\ pc = "exited" /\ exit_code = 0) =>
        \E l \in links[IpNetns(args.netns)] :
            /\ l.name = args.ifname /\ l.up
            /\ config.ipam.some => l.addrs # {}

\* C15: throughout a CHECK, whether it succeeds or fails, the links with
\* their names, states and addresses, the routes, the namespaces and the
\* labels at the backend are what they were when it started.
C15_CheckMutatesNothing ==
    cmd = "CHECK" => World = snap

\* A CHECK has looked at an interface that is there and has ended.
C15_Witness ==
    /\ cmd = "CHECK" /\ pc = "exited" /\ Did("addr_show")
    /\ \E l \in links["tgt"] : l.name = args.ifname

\* The operations the closures passed to in_netns perform.
ClosureOps == {"rename", "up", "addr_add", "route_add", "link_delete",
               "addr_show"}
\* The namespace could not be opened, or the switch into it failed.
EntryFailed ==
    \E i \in 1..Len(ops) : ops[i].op \in {"open_netns", "setns"} /\ ~ops[i].ok

\* C16: when the namespace cannot be opened or the setns into it fails,
\* in_netns returns the error of that step, the closure was never started
\* (it returned nothing and none of its commands was run) and the thread is
\* in the namespace it was in at the call.
C16_FailFast ==
    EntryFailed =>
        /\ pc \in {"in_netns_return", "main", "exited"}
        /\ netns_ret \in {Err("Failed to open netns"), Err("Failed to set netns")}
        /\ closure_result = Running
        /\ \A i \in 1..Len(ops) : ops[i].op \notin ClosureOps
        /\ thread_ns = fds.orig /\ thread_ns = "host"

\* in_netns has returned to an ADD whose link is already in the sandbox,
\* after the setns into it failed.
C16_Witness ==
    /\ cmd = "ADD" /\ pc = "in_netns_return"
    /\ Tried("setns") /\ ~Did("setns") /\ Did("link_netns")

\* C17: once in_netns has returned the restore error, the process runs no
\* further command and makes no further backend call, and it ends with an
\* error.
C17_RestoreFailureFatal ==
    (netns_ret = Err(RestoreFailedMsg) /\ pc \in {"main", "exited"}) =>
        /\ ~ret.ok
        /\ ops[Len(ops)].op = "restore"
        /\ pc = "exited" => exit_code # 0

\* C18: in the result of a successful ADD, every address record is an
\* address the interface has in the sandbox's namespace and every route
\* record is a route installed there.
C18_RecordsWereApplied ==
    (cmd = "ADD" /\ pc = "exited" /\ exit_code = 0) =>
        /\ \A i \in 1..Len(result.ips.v) :
              \E l \in links[IpNetns(args.netns)] :
                  l.name = args.ifname /\ result.ips.v[i].address \in l.addrs
        /\ \A i \in 1..Len(result.routes.v) :
              result.routes.v[i] \in routes[IpNetns(args.netns)]

\* The positions in the log of the operations called op.
OpsAt(op) == {i \in 1..Len(ops) : ops[i].op = op}

\* C19: a successful ADD with an address plan has added one address, then
\* installed the default route, then installed every static route of the
\* plan in the sandbox's namespace: one address command, after it one route
\* command for the default route and one for each static route, and the
\* static routes are in the namespace's routing table.
C19_PlanOrder ==
    (cmd = "ADD" /\ pc = "exited" /\ exit_code = 0 /\ config.ipam.some) =>
        /\ Cardinality(OpsAt("addr_add")) = 1
        /\ \A i \in OpsAt("addr_add"), j \in OpsAt("route_add") : i < j
        /\ Cardinality(OpsAt("route_add")) = 1 + Len(config.ipam.routes)
        /\ \A k \in 1..Len(config.ipam.routes) :
              config.ipam.routes[k] \in routes[IpNetns(args.netns)]

\* C20: a successful ADD has printed one document, its result, and the
\* result holds exactly one interface record, named as CNI_IFNAME asks and
\* with CNI_NETNS as its sandbox.
C20_OneInterfaceRecord ==
    (cmd = "ADD" /\ pc = "exited" /\ exit_code = 0) =>
        /\ stdout = <<Serialize(result)>>
        /\ stdout[1].interfaces.kind = "array"
        /\ Len(stdout[1].interfaces.items) = 1
        /\ stdout[1].interfaces.items[1].name = args.ifname
        /\ stdout[1].interfaces.items[1].sandbox = args.netns

\* A successful ADD that renamed the link to eth1 has printed its result.
C20_Witness ==
    /\ cmd = "ADD" /\ pc = "exited" /\ exit_code = 0
    /\ args.ifname = PlainName("eth1") /\ Did("rename") /\ Len(stdout) = 1

\* C21: VERSION is pure.  While and after a VERSION invocation runs, no
\* operation is in the log (no namespace switch, no ip command, no backend
\* call), no configuration was parsed, no client was made, the thread is in
\* the host namespace with no descriptor open and the world is as the
\* invocation found it; once it returned it has printed one document, the
\* same in every invocation, with the four supported versions, and it ends
\* with status 0 and no error document.
C21_VersionIsPure ==
    cmd = "VERSION" =>
        /\ ops = <<>>
        /\ config = NoConf
        /\ ~aranya /\ access = ErrBool /\ query = NoQuery
        /\ thread_ns = "host" /\ fds = NoFds
        /\ World = snap
        /\ stderr = <<>>
        /\ pc = "run_cni" => stdout = <<>>
        /\ pc \in {"main", "exited"} =>
              /\ ret = Ok
              /\ Len(stdout) = 1
              /\ stdout[1].kind = "version"
              /\ stdout[1].cniVersion = "1.0.0"
              /\ stdout[1].supportedVersions =
                     <<"0.3.0", "0.3.1", "0.4.0", "1.0.0">>
        /\ pc = "exited" => exit_code = 0

\* The second invocation of the run is a VERSION that has ended, with no
\* configuration on its input.
C21_Witness ==
    /\ cmd = "VERSION" /\ pc = "exited" /\ inv = 2
    /\ stdin = NoStdin /\ Len(stdout) = 1

\* C22: every invocation that returned an error to main (a failed ADD, DEL
\* or CHECK, a refusal, an unknown verb) has printed no document on the
\* output stream, and once it has ended its status is not 0 and it has
\* written one error document, whose code is 100 whatever the error and
\* whose message is the error; an invocation that ended with status 0 has
\* written no error document.
C22_OneErrorDocument ==
    /\ (pc \in {"main", "exited"} /\ ~ret.ok) => stdout = <<>>
    /\ (pc = "exited" /\ ~ret.ok) =>
          /\ exit_code # 0
          /\ Len(stderr) = 1
          /\ stderr[1].kind = "error"
          /\ stderr[1].code = 100
          /\ stderr[1].msg = ret.err
    /\ (pc = "exited" /\ ret.ok) => (exit_code = 0 /\ stderr = <<>>)
    /\ pc # "exited" => stderr = <<>>

\* A refused ADD has ended with status 1 and its error document.
C22_Witness ==
    /\ cmd = "ADD" /\ pc = "exited" /\ ret = Err(DeniedMsg)
    /\ exit_code = 1 /\ Len(stderr) = 1

MtuSpawnMsg == "Failed to execute ip link set mtu command"

C24_MigrationFailureFatal ==
    \A i \in 1..Len(ops) :
        (ops[i].op = "link_netns" /\ ~ops[i].ok) =>
            /\ i = Len(ops)
            /\ pc \in {"main", "exited"}
            /\ ret \in {Err("Failed to move VLAN interface to container namespace"),
                        Err("Failed to execute ip link set netns command")}
            /\ thread_ns = "host" /\ fds = NoFds
            /\ closure_result = Running /\ netns_ret = Running
            /\ result = NoResult /\ stdout = <<>>
            /\ labels = snap.labels
            /\ pc = "exited" => exit_code # 0

\* An ADD with a client has ended on a failed migration.
C24_Witness ==
    /\ cmd = "ADD" /\ pc = "exited" /\ exit_code = 1 /\ aranya
    /\ Tried("link_netns") /\ ~Did("link_netns")

\* The positions in the log of the creation commands.
LinkAdds == OpsAt("link_add") \cup OpsAt("link_add_exists")

\* C25: every creation command of ADD comes after a master lookup that
\* succeeded, made in the host namespace; a master lookup that did not
\* succeed is the last operation of its ADD, which has returned an error
\* with the links as the invocation found them.  So when the master is not
\* in the host namespace no creation command is run, no link is created and
\* ADD ends with a status that is not 0.
C25_MasterVerifiedFirst ==
    /\ \A j \in LinkAdds :
          \E i \in 1..(j - 1) :
              ops[i].op = "link_show" /\ ops[i].ok /\ ops[i].ns = "host"
    /\ \A i \in 1..Len(ops) :
          (ops[i].op = "link_show" /\ ~ops[i].ok) =>
              /\ i = Len(ops)
              /\ pc \in {"main", "exited"}
              /\ ret \in {Err("Master interface does not exist"),
                          Err("Failed to execute ip link show command")}
              /\ links = snap.links
    /\ (cmd = "ADD" /\ config.ok
        /\ ~HasLink("host", PlainName(config.master))) =>
              /\ LinkAdds = {}
              /\ links = snap.links
              /\ pc \in {"main", "exited"} => ~ret.ok
              /\ pc = "exited" => exit_code # 0

\* An ADD for a master that is not there has ended on the failed lookup.
C25_Witness ==
    /\ cmd = "ADD" /\ pc = "exited" /\ exit_code = 1
    /\ ~HasLink("host", PlainName(config.master))
    /\ ret = Err("Master interface does not exist")

RouteSpawnMsg == "Failed to execute ip route add command"

PhaseOf(op) ==
    IF op \in {"connect", "check_vlan_access"} THEN 1
    ELSE IF op \in {"link_show", "link_add", "link_add_exists", "link_up",
                    "link_mtu", "link_netns"} THEN 2
    ELSE IF op \in {"open_netns", "open_cur", "setns", "rename", "up",
                    "addr_add", "route_add", "restore"} THEN 3
    ELSE 4
Reached(phase) == \E i \in 1..Len(ops) : PhaseOf(ops[i].op) = phase
HandlerFailed == ~ret.ok /\ ret # Running

\* C27: in an ADD the logged operations are in the order Authorizing,
\* Provisioning, Finalizing, Reporting, with no step back.  Provisioning has
\* begun only past the authorization gate, after the connection attempt, and
\* not on a refusal.  A Reporting operation was made and a document printed
\* only after in_netns returned Ok, and the one document printed is the
\* result, with the handler's return Ok.  A handler that returned an error
\* (refused or failed) is at main or has ended, and has printed nothing; a
\* refused one made no operation past Authorizing, and one whose Finalizing
\* failed made no Reporting operation.
C27_PhaseOrder ==
    cmd = "ADD" =>
        /\ \A i, j \in 1..Len(ops) :
              i < j => PhaseOf(ops[i].op) <= PhaseOf(ops[j].op)
        /\ (Reached(2) \/ Reached(3) \/ Reached(4)) =>
              /\ PastGate /\ ops[1].op = "connect"
              /\ access # OkBool(FALSE)
              /\ ret # Err(DeniedMsg)
        /\ Reached(3) => Did("link_netns")
        /\ (Reached(4) \/ pc \in {"create_vlan", "print"}) =>
              (netns_ret = Ok /\ Did("restore"))
        /\ stdout # <<>> =>
              /\ netns_ret = Ok /\ ret = Ok
              /\ stdout = <<Serialize(result)>>
              /\ pc \in {"main", "exited"}
        /\ HandlerFailed =>
              /\ pc \in {"main", "exited"} /\ stdout = <<>>
              /\ ~Reached(4)
              /\ ret = Err(DeniedMsg) => ~(Reached(2) \/ Reached(3))
        /\ pc = "exited" => (exit_code = 0 <=> ret = Ok)

\* An ADD that went through the four phases has ended with status 0.
C27_Witness ==
    /\ cmd = "ADD" /\ pc = "exited" /\ exit_code = 0
    /\ Did("check_vlan_access") /\ Did("link_netns") /\ Did("restore")
    /\ Did("create_vlan") /\ Len(stdout) = 1

\* The calls to the access-control backend.
BackendOps == {"connect", "check_vlan_access", "create_vlan", "delete_label"}
\* Operation k is made inside a span that a successful switch opened and
\* that no restore has closed yet.
InsideSwitch(k) ==
    \E i \in 1..(k - 1) :
        /\ ops[i].op = "setns" /\ ops[i].ok
        /\ \A j \in (i + 1)..(k - 1) : ops[j].op # "restore"

\* C28: in ADD, DEL and CHECK no call to the backend is made between a
\* successful switch and the restore that follows it, and every call to the
\* backend is made by a thread in the host namespace; the operations made
\* inside the span are the closure's ip commands only.
C28_NoBackendCallInsideSwitch ==
    \A k \in 1..Len(ops) :
        /\ ops[k].op \in BackendOps =>
              (~InsideSwitch(k) /\ ops[k].ns = "host")
        /\ InsideSwitch(k) =>
              ops[k].op \in {"rename", "up", "addr_add", "route_add",
                             "link_delete", "addr_show", "restore"}

\* An ADD that worked in the sandbox's namespace and then registered the
\* VLAN is about to print its result.
C28_Witness ==
    /\ cmd = "ADD" /\ pc = "print" /\ Did("create_vlan")
    /\ \E i \in 1..Len(ops) : ops[i].op = "up" /\ ops[i].ns = "tgt"

\* C29: in ADD and in CHECK alike, once the gate is passed with the backend
\* unavailable the decision is to allow, whatever the cause: without a
\* client the check answered Ok(true), with a client whose check call failed
\* it answered an error, and in both cases the handler was not refused and
\* went on to its next step (the master lookup in ADD, in_netns in CHECK).
C29_UniformUnavailabilityPolicy ==
    (cmd \in {"ADD", "CHECK"} /\ PastGate /\ BackendUnavailable) =>
        /\ ret # Err(DeniedMsg)
        /\ access = IF Did("connect") THEN ErrBool ELSE OkBool(TRUE)
        /\ IF cmd = "ADD"
           THEN pc = "verify_master_interface" \/ Tried("link_show")
           ELSE pc = "in_netns" \/ Tried("open_netns")

\* A CHECK whose access check call failed has looked at the interface and
\* ended with status 0.
C29_Witness ==
    /\ cmd = "CHECK" /\ pc = "exited" /\ exit_code = 0
    /\ Did("connect") /\ Tried("check_vlan_access")
    /\ ~Did("check_vlan_access") /\ Did("addr_show")

\* C30: a registration call that failed is not the end of ADD: the handler
\* goes on to print, returns Ok with its result printed and ends with status
\* 0.  A DEL that has a client returns Ok after its deregistration call,
\* whatever the call and the closure before it did.
C30_RegistrationFailuresNonFatal ==
    /\ \A i \in 1..Len(ops) :
          (ops[i].op = "create_vlan" /\ ~ops[i].ok) =>
              /\ pc \in {"print", "main", "exited"}
              /\ pc = "print" => ret = Running
              /\ pc \in {"main", "exited"} =>
                    (ret = Ok /\ stdout = <<Serialize(result)>>)
              /\ pc = "exited" => exit_code = 0
    /\ (cmd = "DEL" /\ aranya /\ pc \in {"main", "exited"}) => ret = Ok

\* An ADD whose registration failed has ended with status 0 and its result.
C30_Witness ==
    /\ cmd = "ADD" /\ pc = "exited" /\ exit_code = 0
    /\ Tried("create_vlan") /\ ~Did("create_vlan") /\ Len(stdout) = 1

\* C31: what from_str gives back of a serialized result has the result's
\* version, a list where the result had one, the empty one included, none
\* where it had none, and a dns block exactly if the result had one.
C31_RoundTripKeepsPresence ==
    pc = "decoded" =>
        /\ decoded.cni_version = result.cni_version
        /\ decoded.interfaces.some = result.interfaces.some
        /\ decoded.ips.some = result.ips.some
        /\ decoded.routes.some = result.routes.some
        /\ decoded.dns = result.dns
        /\ decoded.interfaces.v = result.interfaces.v
        /\ decoded.ips.v = result.ips.v
        /\ decoded.routes.v = result.routes.v

\* The result of the serialization test (three empty lists, no dns) was
\* serialized and read back.
C31_Witness ==
    /\ pc = "decoded" /\ calls = <<>>
    /\ result = [cni_version |-> "1.0.0", interfaces |-> EmptyList,
                 ips |-> EmptyList, dns |-> FALSE, routes |-> EmptyList]
    /\ decoded.interfaces.some /\ ~decoded.dns

\* C32: every migration command of ADD comes after an 'up' command that
\* succeeded in the host namespace, and it is itself run in the host
\* namespace; an 'up' command of the host side that did not succeed is the
\* last operation of its ADD, which has returned an error and ends with a
\* status that is not 0.
C32_UpBeforeMigration ==
    /\ \A j \in OpsAt("link_netns") :
          /\ ops[j].ns = "host"
          /\ \E i \in 1..(j - 1) :
                ops[i].op = "link_up" /\ ops[i].ok /\ ops[i].ns = "host"
    /\ \A i \in OpsAt("link_up") :
          ~ops[i].ok =>
              /\ i = Len(ops)
              /\ pc \in {"main", "exited"}
              /\ ret \in {Err("Failed to set VLAN interface up"),
                          Err("Failed to execute ip link set up command")}
              /\ pc = "exited" => exit_code # 0

\* An ADD that created its link has ended on a failed 'up'.
C32_Witness ==
    /\ cmd = "ADD" /\ pc = "exited" /\ exit_code = 1
    /\ Did("link_add") /\ Tried("link_up") /\ ~Did("link_up")

\* C33: in ADD's closure a rename command is run exactly when the name the
\* link was created with differs from CNI_IFNAME (before the 'up' command),
\* and an 'up' command that did not succeed ends the closure with its error:
\* no address and no route command is run, only the restore follows, nothing
\* is printed and ADD ends with a status that is not 0.
C33_RenameIfDifferentUpFatal ==
    cmd = "ADD" =>
        /\ Tried("rename") => vlan_name(config.master, config.vlan) # args.ifname
        /\ (Tried("up") /\ vlan_name(config.master, config.vlan) # args.ifname)
              => \E i \in OpsAt("rename"), j \in OpsAt("up") :
                     ops[i].ok /\ i < j
        /\ \A i \in OpsAt("up") :
              ~ops[i].ok =>
                  /\ closure_result \in
                        {Err("Failed to set interface up in container"),
                         Err("Failed to execute ip link set up command in container")}
                  /\ ~Tried("addr_add") /\ ~Tried("route_add")
                  /\ i < Len(ops) => (i + 1 = Len(ops) /\ ops[i + 1].op = "restore")
                  /\ stdout = <<>>
                  /\ pc \in {"main", "exited"} => ~ret.ok
                  /\ pc = "exited" => exit_code # 0

\* An ADD with an address plan and with CNI_IFNAME the name the link already
\* has ran no rename and has ended on a failed 'up'.
C33_Witness ==
    /\ cmd = "ADD" /\ pc = "exited" /\ exit_code = 1
    /\ config.ipam.some /\ ~Tried("rename")
    /\ Tried("up") /\ ~Did("up")

\* The arguments of the calls named op, in call order.
ArgsOf(op) ==
    LET s == SelectSeq(calls, LAMBDA c : c.op = op)
    IN  [i \in 1..Len(s) |-> s[i].arg]
IsPrefix(s, t) == Len(s) <= Len(t) /\ SubSeq(t, 1, Len(s)) = s
ListFields == {"interfaces", "ips", "routes"}

\* C34: at every moment each list of the accumulator holds exactly the
\* records its add_ calls were given, in call order, and a dns block once
\* set_dns was called; and no step removes or reorders a record (the list
\* before is a prefix of the list after, a list that was present stays
\* present), changes more than one part, or changes the version.
C34_AppendOnly ==
    /\ [](/\ result.interfaces.v = ArgsOf("add_interface")
          /\ result.ips.v = ArgsOf("add_ip")
          /\ result.routes.v = ArgsOf("add_route")
          /\ \A f \in ListFields : result[f].v # <<>> => result[f].some
          /\ ArgsOf("set_dns") # <<>> => result.dns)
    /\ [][/\ result'.cni_version = result.cni_version
          /\ \A f \in ListFields :
                /\ IsPrefix(result[f].v, result'[f].v)
                /\ Len(result'[f].v) <= Len(result[f].v) + 1
                /\ result[f].some => result'[f].some
          /\ result.dns => result'.dns
          /\ Cardinality({f \in ListFields : result'[f] # result[f]}
                         \cup (IF result'.dns # result.dns THEN {"dns"}
                               ELSE {})) <= 1]_vars

\* Two different addresses and a route were added to one result.
C34_Witness ==
    /\ pc = "acc" /\ Len(calls) = 3
    /\ Len(result.ips.v) = 2 /\ result.ips.v[1] # result.ips.v[2]
    /\ Len(result.routes.v) = 1

\* The successful switch that opened the span operation k is in.
Opening(k) ==
    CHOOSE i \in 1..(k - 1) :
        /\ ops[i].op = "setns" /\ ops[i].ok
        /\ \A j \in (i + 1)..(k - 1) : ops[j].op # "restore"

C36_PlanFromVlanAlone ==
    /\ \A i \in 1..Len(plans) :
          /\ plans[i].ip = Ip(192, 168, plans[i].vlan % 256, 2, 24)
          /\ plans[i].gateway = Ip(192, 168, plans[i].vlan % 256, 1, 0)
    /\ \A i, j \in 1..Len(plans) :
          plans[i].vlan % 256 = plans[j].vlan % 256 =>
              (plans[i].ip = plans[j].ip /\ plans[i].gateway = plans[j].gateway)

\* Two sandboxes, VLAN 100 and VLAN 356, different ipam blocks: one address.
C36_Witness ==
    /\ Len(plans) = 2
    /\ plans[1].vlan = 100 /\ plans[2].vlan = 356
    /\ plans[1].sandbox # plans[2].sandbox
    /\ plans[1].ipam # plans[2].ipam
    /\ plans[1].ip = plans[2].ip

C38_EntersMigrationTarget ==
    (cmd = "ADD" /\ Did("link_netns")) =>
        /\ Did("open_netns") => fds.fd_ns = IpNetns(args.netns)
        /\ Did("setns") =>
              \A i \in OpsAt("up") : ops[i].ns = IpNetns(args.netns)
        /\ (args.netns = "path" /\ Tried("open_netns")) => Did("open_netns")

\* C39: when in_netns returns, on each of its return paths, neither namespace
\* descriptor is still open, each descriptor that was opened has been closed
\* once, and one that was never opened has not been closed; at no point has
\* a descriptor been closed twice.
C39_NoDescriptorLeak ==
    /\ fds.fd_closes <= 1 /\ fds.cur_closes <= 1
    /\ pc = "in_netns_return" =>
          /\ fds.fd # "open" /\ fds.cur # "open"
          /\ fds.fd_closes = (IF Did("open_netns") THEN 1 ELSE 0)
          /\ fds.cur_closes = (IF Did("open_cur") THEN 1 ELSE 0)

C39_Witness ==
    /\ pc = "in_netns_return"
    /\ Tried("restore") /\ ~Did("restore")
    /\ fds.fd_closes = 1 /\ fds.cur_closes = 1

\* The last of the first n calls of the stub that was a create, a grant or a
\* revoke on VLAN v, or 0.
LastMutation(v, n) ==
    LET S == {i \in 1..n : /\ stub_calls[i].vlan = v
                           /\ stub_calls[i].op \in {"create", "grant", "revoke"}}
    IN IF S = {} THEN 0 ELSE CHOOSE i \in S : \A j \in S : j <= i
HasAccessAfter(v, n) ==
    /\ LastMutation(v, n) # 0
    /\ stub_calls[LastMutation(v, n)].op \in {"create", "grant"}

\* C40: in socni-ctl's stub, after any sequence of calls the map answers true
\* for a VLAN exactly when the most recent create, grant or revoke on that
\* VLAN was a create or a grant, whichever tenant the client was made for
\* and whichever tenant the grant or the revoke named; and each
\* check_vlan_access returned that answer.
C40_LastMutationDecides ==
    /\ \A v \in CtlVlans :
          StubGet(stub_configs, v) = HasAccessAfter(v, Len(stub_calls))
    /\ \A i \in 1..Len(stub_calls) :
          stub_calls[i].op = "check" =>
              stub_calls[i].val = HasAccessAfter(stub_calls[i].vlan, i - 1)

\* A grant naming the other tenant gives the client's own tenant access, and
\* a revoke naming the other tenant takes it away again.
C40_Witness ==
    /\ Len(stub_calls) = 4
    /\ \A i \in 1..4 : stub_calls[i].vlan = 100
    /\ stub_calls[1].op = "grant" /\ stub_calls[1].target # stub_tenant
    /\ stub_calls[2].op = "check" /\ stub_calls[2].val
    /\ stub_calls[3].op = "revoke" /\ stub_calls[3].target # stub_tenant
    /\ stub_calls[4].op = "check" /\ ~stub_calls[4].val
====
